---- MODULE Spec2Model ----
(***************************************************************************)
(* Model of SqlaQueryBuilder                                               *)
(* (src/aiida/orm/implementation/sqlalchemy/querybuilder/main.py).         *)
(*                                                                         *)
(* Python values are encoded as follows.                                   *)
(*   None / absent optional   the empty sequence << >>, Some(v) is <<v>>   *)
(*   dict (insertion ordered) a sequence of <<key, value>> pairs           *)
(*   filter value             a record [ty, n, items]: ty is the Python    *)
(*                            type name, n a payload, items the elements   *)
(*                            of a list                                    *)
(*   operator string          a sequence of tokens, '~' and '!' being      *)
(*                            one-character tokens: '~in' is <<"~","in">>  *)
(*   exception                Raise(cls, msg, arg)                         *)
(***************************************************************************)
EXTENDS Integers, Sequences, FiniteSets, TLC

VARIABLES
    _tag_to_alias,               \* self._tag_to_alias: tag -> alias
    _projection_index_to_field,  \* self._projection_index_to_field: position -> field
    _tag_to_projected_fields,    \* self._tag_to_projected_fields: tag -> field -> position
    _data,                       \* self._data: the spec of the last build started
    _query,                      \* self._query: the resident query object
    _hash,                       \* self._hash: hash of the last spec built to the end
    session,                     \* the backend session: "idle" or "open"
    gen,                         \* the one lazy row sequence (iterall / iterdict) in flight
    last,                        \* what the last operation did and gave to its caller
    workload,                    \* the specs the caller uses in this run
    probe                        \* input and output of the filter compiler run on its own

vars == <<_tag_to_alias, _projection_index_to_field, _tag_to_projected_fields, _data,
          _query, _hash, session, gen, last, workload, probe>>

------------------------------------------------------------------------------
(* Generic helpers *)

None == << >>

Some(v) == <<v>>

Range(s) == {s[i] : i \in DOMAIN s}

\* dict.get(k, default) on an ordered dict
RECURSIVE DictGet(_, _, _)
DictGet(d, k, default) ==
    IF d = << >> THEN default
    ELSE IF Head(d)[1] = k THEN Head(d)[2]
    ELSE DictGet(Tail(d), k, default)

DictKeys(d) == {d[i][1] : i \in DOMAIN d}

DictHas(d, k) == k \in DictKeys(d)

Ok(v) == [ok |-> TRUE, v |-> v]

Raise(cls, msg, arg) == [ok |-> FALSE, cls |-> cls, msg |-> msg, arg |-> arg]

Min(S) == CHOOSE m \in S : \A o \in S : m <= o

------------------------------------------------------------------------------
(* The entity/schema collaborator (aiida.backends.sqlalchemy.models) and the *)
(* join strategies (.joiner.SqlaJoiner) are not part of main.py.             *)

\* __tablename__ of the class behind an alias
TableName(cls) ==
    CASE cls = "node" -> "db_dbnode"
      [] cls = "computer" -> "db_dbcomputer"
      [] cls = "link" -> "db_dblink"
      [] OTHER -> "db_dbpath"

\* alias.__table__.columns: the column names of the table, in table order
TableColumns(cls) ==
    CASE cls = "node" -> << <<"id">>, <<"attributes">> >>
      [] cls = "computer" -> << <<"id">>, <<"metadata">> >>
      [] cls = "link" -> << <<"id">>, <<"label">> >>
      [] OTHER -> << <<"id">>, <<"path">> >>

\* the attributes getattr(alias, name) finds on the mapped class
OrmAttributes(cls) ==
    CASE cls = "node" -> {"id", "attributes"}
      [] cls = "computer" -> {"id", "_metadata"}
      [] cls = "link" -> {"id", "label"}
      [] OTHER -> {"id", "path"}

\* SqlaJoiner.get_join_func: (entity kind, joining keyword) -> strategy;
\* << >> stands for the KeyError of an unregistered pair
JoinStrategy(calling_entity, joining_keyword) ==
    CASE calling_entity = "node" /\ joining_keyword = "with_incoming" -> Some("many_to_many")
      [] calling_entity = "node" /\ joining_keyword = "with_ancestors" -> Some("closure")
      [] calling_entity = "node" /\ joining_keyword = "with_computer" -> Some("direct")
      [] calling_entity = "computer" /\ joining_keyword = "with_node" -> Some("reverse")
      [] OTHER -> None

\* The class of the edge alias a strategy binds, << >> when it binds none
EdgeClass(strategy) ==
    CASE strategy = "many_to_many" -> Some("link")
      [] strategy = "closure" -> Some("path")
      [] OTHER -> None

------------------------------------------------------------------------------
(* set_field_mappings, get_corresponding_property(ies), modify_expansions *)

outer_to_inner_schema ==
    << <<"db_dbcomputer", << << <<"metadata">>, <<"_metadata">> >> >> >>,
       <<"db_dblog", << << <<"metadata">>, <<"_metadata">> >> >> >> >>

inner_to_outer_schema ==
    << <<"db_dbcomputer", << << <<"_metadata">>, <<"metadata">> >> >> >>,
       <<"db_dblog", << << <<"_metadata">>, <<"metadata">> >> >> >> >>

get_corresponding_property(entity_table, given_property, mapper) ==
    IF DictHas(mapper, entity_table)
    THEN DictGet(DictGet(mapper, entity_table, << >>), given_property, given_property)
    ELSE given_property

get_corresponding_properties(entity_table, given_properties, mapper) ==
    IF DictHas(mapper, entity_table)
    THEN [i \in DOMAIN given_properties |->
             get_corresponding_property(entity_table, given_properties[i], mapper)]
    ELSE given_properties

\* every alias of the model is an AliasedClass (has _sa_class_manager)
modify_expansions(alias, expansions) ==
    IF <<"_metadata">> \in Range(expansions)
    THEN Raise("NotExistent", "_metadata doesn't exist", <<"_metadata">>)
    ELSE Ok(get_corresponding_properties(TableName(alias.cls), expansions, outer_to_inner_schema))

get_table_name(aliased_class) == TableName(aliased_class.cls)

get_column_names(alias) == TableColumns(alias.cls)

\* get_column: getattr(alias, colname), or ValueError naming the valid columns
get_column(colname, alias) ==
    IF colname \in OrmAttributes(alias.cls)
    THEN Ok([k |-> "column", cls |-> alias.cls, tag |-> alias.tag, name |-> colname])
    ELSE Raise("ValueError", "is not a column of", <<colname>>)

------------------------------------------------------------------------------
(* The filter compiler: get_filter_expr, get_filter_expr_from_jsonb,         *)
(* get_filter_expr_from_column, build_filters.                               *)
(* A compiled predicate is a tree of records, tagged by k.                   *)

Val(ty, n) == [ty |-> ty, n |-> n, s |-> "", items |-> << >>]

StrVal(s) == [ty |-> "str", n |-> 0, s |-> s, items |-> << >>]

ListVal(items) == [ty |-> "list", n |-> 0, s |-> "", items |-> items]

\* a dict used as operand of a field path: operator -> value, in order
OpsVal(pairs) == [ty |-> "dict", n |-> 0, s |-> "", items |-> pairs]

\* `for i in value` and value[0]: the elements of a list, the characters of a
\* string (a string of the model has at most one), the keys of a dict
Elements(value) ==
    IF value.ty = "list" THEN value.items
    ELSE IF value.ty = "str" THEN (IF value.s = "" THEN << >> ELSE <<value>>)
    ELSE [i \in DOMAIN value.items |-> StrVal("key")]

and_(args) == [k |-> "and", args |-> args]

or_(args) == [k |-> "or", args |-> args]

not_(e) == [k |-> "not", e |-> e]

\* case([(when, then)], else_=False)
case_(when, then) == [k |-> "case", when |-> when, then |-> then]

typeof_eq(e, tag) == [k |-> "typeof_eq", e |-> e, tag |-> tag]

cmp(op, lhs, rhs) == [k |-> "cmp", op |-> op, lhs |-> lhs, rhs |-> rhs]

cast(e, to) == [k |-> "cast", e |-> e, to |-> to]

astext(e) == [k |-> "astext", e |-> e]

\* str.lstrip(ch): every leading ch is removed
RECURSIVE lstrip(_, _)
lstrip(operator, ch) ==
    IF operator # << >> /\ Head(operator) = ch THEN lstrip(Tail(operator), ch) ELSE operator

startswith(operator, ch) == operator # << >> /\ Head(operator) = ch

\* a result put in front of the results after it: the first raise wins
AllOkCons(h, rest) ==
    IF ~h.ok THEN h ELSE IF ~rest.ok THEN rest ELSE Ok(<<h.v>> \o rest.v)

\* [r1, r2, ...] of results: the first raise, else the list of the values
RECURSIVE AllOk(_)
AllOk(rs) == IF rs = << >> THEN Ok(<< >>) ELSE AllOkCons(Head(rs), AllOk(Tail(rs)))

\* for d in list_of_dicts: for k, v in d.items(): the pairs in order
RECURSIVE FlattenDicts(_)
FlattenDicts(ds) == IF ds = << >> THEN << >> ELSE Head(ds) \o FlattenDicts(Tail(ds))

\* lines 878-900; the second dict branch and the second None branch are dead
cast_according_to_type(path_in_json, value) ==
    IF value.ty = "bool"
    THEN Ok([type_filter |-> typeof_eq(path_in_json, "boolean"),
             casted_entity |-> cast(astext(path_in_json), "Boolean")])
    ELSE IF value.ty \in {"int", "float"}
    THEN Ok([type_filter |-> typeof_eq(path_in_json, "number"),
             casted_entity |-> cast(astext(path_in_json), "Float")])
    ELSE IF value.ty = "dict" \/ value.ty = "NoneType"
    THEN Ok([type_filter |-> typeof_eq(path_in_json, "object"),
             casted_entity |-> cast(astext(path_in_json), "JSONB")])
    ELSE IF value.ty = "str"
    THEN Ok([type_filter |-> typeof_eq(path_in_json, "string"),
             casted_entity |-> astext(path_in_json)])
    ELSE Raise("TypeError", "Unknown type", <<value.ty>>)

valid_types == {"object", "array", "string", "number", "boolean", "null"}

\* the comparison written in each type-guarded branch of get_filter_expr_from_jsonb
JsonbComparison(operator) ==
    CASE operator = <<"==">> -> "=="
      [] operator = <<">">> -> ">"
      [] operator = <<"<">> -> "<"
      [] operator \in {<<">=">>, <<"=>">>} -> ">="
      [] operator \in {<<"<=">>, <<"=<">>} -> "<="
      [] operator = <<"like">> -> "like"
      [] operator = <<"ilike">> -> "ilike"
      [] operator = <<"in">> -> "in"
      [] operator = <<"of_length">> -> "=="
      [] operator = <<"longer">> -> ">"
      [] operator = <<"shorter">> -> "<"
      [] OTHER -> ""

\* the comparison without the case(...) on the type of the stored value
TypeGuarded_NoGuard(operator, value, c) ==
    IF ~c.ok THEN c ELSE Ok(cmp(JsonbComparison(operator), c.v.casted_entity, value))

\* case([(type_filter, casted_entity <op> value)], else_=False), c being what
\* cast_according_to_type gave
TypeGuarded(operator, value, c) ==
    IF ~c.ok THEN c
    ELSE Ok(case_(c.v.type_filter, cmp(JsonbComparison(operator), c.v.casted_entity, value)))

\* lines 906-959: the expression on database_entity = column[tuple(attr_key)]
JsonbExpr(operator, value, database_entity) ==
    CASE operator \in {<<"==">>, <<">">>, <<"<">>, <<">=">>, <<"=>">>, <<"<=">>,
                       <<"=<">>, <<"like">>, <<"ilike">>} ->
                TypeGuarded(operator, value, cast_according_to_type(database_entity, value))
      [] operator = <<"of_type">> ->
                IF value.ty # "str" \/ value.s \notin valid_types
                THEN Raise("ValueError", "is not among valid types", <<value.s>>)
                ELSE Ok(typeof_eq(database_entity, value.s))
      [] operator = <<"in">> ->
                IF value.ty = "dict" THEN Raise("KeyError", "0", << >>)
                ELSE TypeGuarded(operator, value,
                                 cast_according_to_type(database_entity, Elements(value)[1]))
      [] operator = <<"contains">> ->
                Ok([k |-> "contains", e |-> cast(database_entity, "JSONB"), v |-> value])
      [] operator = <<"has_key">> ->
                Ok([k |-> "has_key", e |-> cast(database_entity, "JSONB"), v |-> value])
      [] operator \in {<<"of_length">>, <<"longer">>, <<"shorter">>} ->
                Ok(case_(typeof_eq(database_entity, "array"),
                         cmp(JsonbComparison(operator),
                             [k |-> "jsonb_array_length", e |-> cast(database_entity, "JSONB")],
                             value)))
      [] OTHER -> Raise("ValueError", "Unknown operator for filters in JSON field", operator)

\* `if column is None: column = self.get_column(column_name, alias)`
ColumnOrLookup(column, column_name, alias) ==
    IF column = None THEN get_column(column_name, alias) ELSE Ok(column[1])

\* lines 905-959 once the column is known, col being the column or the raise
\* of its lookup
JsonbOfColumn(operator, value, attr_key, col) ==
    IF ~col.ok THEN col
    ELSE JsonbExpr(operator, value, [k |-> "json", col |-> col.v, path |-> attr_key])

get_filter_expr_from_jsonb(operator, value, attr_key, column, column_name, alias) ==
    JsonbOfColumn(operator, value, attr_key, ColumnOrLookup(column, column_name, alias))

\* every column of the model is an InstrumentedAttribute: the isinstance test passes
get_filter_expr_from_column(operator, value, column) ==
    CASE operator \in {<<"==">>, <<">">>, <<"<">>, <<">=">>, <<"<=">>} ->
                Ok(cmp(operator[1], column, value))
      [] operator = <<"like">> -> Ok(cmp("like", cast(column, "String"), value))
      [] operator = <<"ilike">> -> Ok(cmp("ilike", column, value))
      [] operator = <<"in">> -> Ok(cmp("in", column, value))
      [] OTHER -> Raise("ValueError", "Unknown operator for filters on columns", operator)

\* lines 861-865, col being the column or the raise of its lookup
ExprOfColumn(operator, value, col) ==
    IF ~col.ok THEN col ELSE get_filter_expr_from_column(operator, value, col.v)

\* set(type(i) for i in value)
value_type_set(value) == {Elements(value)[i].ty : i \in DOMAIN Elements(value)}

\* lines 819-834 without the test of line 833 for more than one type
CheckValue_AnyTypes(operator, value) ==
    IF operator \in {<<"longer">>, <<"shorter">>, <<"of_length">>}
    THEN IF value.ty \notin {"int", "bool"}
         THEN Raise("TypeError", "You have to give an integer when comparing to a length", operator)
         ELSE Ok(TRUE)
    ELSE IF operator \in {<<"like">>, <<"ilike">>}
    THEN IF value.ty # "str"
         THEN Raise("TypeError", "Value for operator has to be a string", operator)
         ELSE Ok(TRUE)
    ELSE IF operator = <<"in">>
    THEN IF value.ty \notin {"list", "str", "dict"}
         THEN Raise("TypeError", "Value for operator in could not be iterated", operator)
         ELSE IF value_type_set(value) = {}
         THEN Raise("ValueError", "Value for operator in is an empty list", operator)
         ELSE Ok(TRUE)
    ELSE Ok(TRUE)

\* lines 819-834: the checks on the value; Ok(TRUE) when none raises
CheckValue(operator, value) ==
    IF operator \in {<<"longer">>, <<"shorter">>, <<"of_length">>}
    THEN IF value.ty \notin {"int", "bool"}
         THEN Raise("TypeError", "You have to give an integer when comparing to a length", operator)
         ELSE Ok(TRUE)
    ELSE IF operator \in {<<"like">>, <<"ilike">>}
    THEN IF value.ty # "str"
         THEN Raise("TypeError", "Value for operator has to be a string", operator)
         ELSE Ok(TRUE)
    ELSE IF operator = <<"in">>
    THEN IF value.ty \notin {"list", "str", "dict"}
         THEN Raise("TypeError", "Value for operator in could not be iterated", operator)
         ELSE IF value_type_set(value) = {}
         THEN Raise("ValueError", "Value for operator in is an empty list", operator)
         ELSE IF Cardinality(value_type_set(value)) > 1
         THEN Raise("ValueError", "Value for operator in contains more than one type", operator)
         ELSE Ok(TRUE)
    ELSE Ok(TRUE)

\* lines 811-818: the operator without its negation prefix
StripNegation(operator) ==
    IF startswith(operator, "~") THEN lstrip(operator, "~")
    ELSE IF startswith(operator, "!") THEN lstrip(operator, "!")
    ELSE operator

\* lines 850-853
CombineList(operator, expressions_for_this_path) ==
    IF ~expressions_for_this_path.ok THEN expressions_for_this_path
    ELSE IF operator = <<"and">> THEN Ok(and_(expressions_for_this_path.v))
    ELSE Ok(or_(expressions_for_this_path.v))

\* lines 867-869
Negated(negation, expr) ==
    IF ~expr.ok THEN expr ELSE IF negation THEN Ok(not_(expr.v)) ELSE expr

RECURSIVE get_filter_expr(_, _, _, _, _, _, _)

\* one get_filter_expr per (operator, value) pair, in order
FilterExprs(pairs, attr_key, is_jsonb, alias, column, column_name) ==
    AllOk([i \in DOMAIN pairs |->
              get_filter_expr(pairs[i][1], pairs[i][2], attr_key, is_jsonb, alias, column,
                              column_name)])

\* lines 819-865 for the operator without its prefix; checked is what the
\* checks on the value gave
UnprefixedExpr(operator, value, checked, attr_key, is_jsonb, alias, column, column_name) ==
    IF ~checked.ok THEN checked
    ELSE IF operator \in {<<"and">>, <<"or">>}
    THEN CombineList(operator,
                     FilterExprs(FlattenDicts(value.items), attr_key, is_jsonb, alias, column,
                                 column_name))
    ELSE IF is_jsonb
    THEN get_filter_expr_from_jsonb(operator, value, attr_key, column, column_name, alias)
    ELSE ExprOfColumn(operator, value, ColumnOrLookup(column, column_name, alias))

\* lines 819-869 for the operator without its prefix
PrefixedExpr(negation, operator, value, attr_key, is_jsonb, alias, column, column_name) ==
    Negated(negation,
            UnprefixedExpr(operator, value, CheckValue(operator, value), attr_key, is_jsonb,
                           alias, column, column_name))

get_filter_expr(operator, value, attr_key, is_jsonb, alias, column, column_name) ==
    PrefixedExpr(startswith(operator, "~") \/ startswith(operator, "!"),
                 StripNegation(operator), value, attr_key, is_jsonb, alias, column, column_name)

\* lines 636-643 with the negated forms combined like the plain ones
Combinator_NoNot(path_spec, subexpressions) ==
    IF ~subexpressions.ok THEN subexpressions
    ELSE IF path_spec \in {<<"and">>, <<"~and">>, <<"!and">>} THEN Ok(<<and_(subexpressions.v)>>)
    ELSE Ok(<<or_(subexpressions.v)>>)

\* lines 636-643
Combinator(path_spec, subexpressions) ==
    IF ~subexpressions.ok THEN subexpressions
    ELSE IF path_spec = <<"and">> THEN Ok(<<and_(subexpressions.v)>>)
    ELSE IF path_spec = <<"or">> THEN Ok(<<or_(subexpressions.v)>>)
    ELSE IF path_spec \in {<<"~and">>, <<"!and">>} THEN Ok(<<not_(and_(subexpressions.v))>>)
    ELSE Ok(<<not_(or_(subexpressions.v))>>)

\* lines 656-657 without the wrapping of a value that is no dict
OperationDict_MappingOnly(filter_operation_dict) ==
    filter_operation_dict.items

\* lines 656-657
OperationDict(filter_operation_dict) ==
    IF filter_operation_dict.ty # "dict" THEN << <<(<<"==">>), filter_operation_dict>> >>
    ELSE filter_operation_dict.items

\* lines 649-669, found being what get_column gave
FieldExprs(alias, column_name, attr_key, is_jsonb, found, filter_operation_dict) ==
    IF ~found.ok /\ ~is_jsonb THEN found
    ELSE FilterExprs(OperationDict(filter_operation_dict), attr_key, is_jsonb, alias,
                     IF found.ok THEN Some(found.v) ELSE None, column_name)

\* lines 645-669: path_spec.split('.') is the sequence path_spec
FieldFilter(alias, path_spec, filter_operation_dict) ==
    FieldExprs(alias, Head(path_spec), Tail(path_spec),
               Tail(path_spec) # << >> \/ Head(path_spec) \in {"attributes", "extras"},
               get_column(Head(path_spec), alias), filter_operation_dict)

\* and_(*expressions)
Conjunction(expressions) ==
    IF ~expressions.ok THEN expressions ELSE Ok(and_(FlattenDicts(expressions.v)))

RECURSIVE build_filters(_, _)

\* lines 633-635
SubFilters(alias, filter_operation_dict) ==
    AllOk([i \in DOMAIN filter_operation_dict.items |->
              build_filters(alias, filter_operation_dict.items[i])])

\* the body of the loop of build_filters: the expressions one key appends
KeyFilter(alias, path_spec, filter_operation_dict) ==
    IF path_spec \in {<<"and">>, <<"or">>, <<"~or">>, <<"~and">>, <<"!and">>, <<"!or">>}
    THEN Combinator(path_spec, SubFilters(alias, filter_operation_dict))
    ELSE FieldFilter(alias, path_spec, filter_operation_dict)

build_filters(alias, filter_spec) ==
    Conjunction(AllOk([i \in DOMAIN filter_spec |->
                          KeyFilter(alias, filter_spec[i][1], filter_spec[i][2])]))

------------------------------------------------------------------------------
(* What the storage engine computes for a compiled predicate on one row.     *)
(* A row gives the stored JSON value under the filtered attribute path       *)
(* (row.json, with jt its jsonb_typeof, "missing" for SQL NULL) and the      *)
(* value of the filtered column (row.col).  The outcome is "T", "F", "N"     *)
(* (SQL NULL) or "E" (the statement fails at evaluation time).               *)

\* the jsonb type tag of a Python value stored as JSON
JsonTypeOf(value) ==
    CASE value.ty = "bool" -> "boolean"
      [] value.ty \in {"int", "float"} -> "number"
      [] value.ty = "str" -> "string"
      [] value.ty = "dict" -> "object"
      [] value.ty = "NoneType" -> "null"
      [] OTHER -> "array"

\* the stored operand an entity expression denotes: [jt, n, s], jt "error"
\* when the engine cannot compute it
RECURSIVE EvalEntity(_, _)
EvalEntity(e, row) ==
    CASE e.k = "column" -> row.col
      [] e.k = "json" -> row.json
      [] e.k = "astext" -> EvalEntity(e.e, row)
      [] e.k = "cast" ->
            LET x == EvalEntity(e.e, row)
            IN IF x.jt \in {"missing", "error"} THEN x
               ELSE IF e.to = "Float" /\ x.jt # "number" THEN [x EXCEPT !.jt = "error"]
               ELSE IF e.to = "Boolean" /\ x.jt # "boolean" THEN [x EXCEPT !.jt = "error"]
               ELSE IF e.to = "JSONB" /\ e.e.k = "astext" /\ x.jt = "string"
               THEN [x EXCEPT !.jt = "error"]
               ELSE x
      [] e.k = "jsonb_array_length" ->
            LET x == EvalEntity(e.e, row)
            IN IF x.jt \in {"missing", "error"} THEN x
               ELSE IF x.jt # "array" THEN [x EXCEPT !.jt = "error"]
               ELSE [x EXCEPT !.jt = "number"]
      [] OTHER -> [jt |-> "error", n |-> 0, s |-> ""]

Bool3(b) == IF b THEN "T" ELSE "F"

\* a stored operand x equals a bound Python value of its type: a string by
\* its text, any other value by its number
SameValue(value, x) == IF x.jt = "string" THEN value.s = x.s ELSE value.n = x.n

\* lhs <op> rhs for a stored operand x and a bound Python value
Compare(op, x, value) ==
    IF x.jt = "error" THEN "E"
    ELSE IF value.ty = "NoneType" THEN Bool3(x.jt = "missing")
    ELSE IF x.jt = "missing" THEN "N"
    ELSE IF op = "in"
    THEN IF \E i \in DOMAIN Elements(value) : JsonTypeOf(Elements(value)[i]) # x.jt THEN "E"
         ELSE Bool3(\E i \in DOMAIN Elements(value) : SameValue(Elements(value)[i], x))
    ELSE IF JsonTypeOf(value) # x.jt THEN "E"
    ELSE CASE op = "==" -> Bool3(SameValue(value, x))
           [] op = ">" -> Bool3(x.n > value.n)
           [] op = "<" -> Bool3(x.n < value.n)
           [] op = ">=" -> Bool3(x.n >= value.n)
           [] op = "<=" -> Bool3(x.n <= value.n)
           [] op \in {"like", "ilike"} -> Bool3(value.s = x.s)
           [] OTHER -> "E"

And3(a, b) ==
    IF a = "E" \/ b = "E" THEN "E"
    ELSE IF a = "F" \/ b = "F" THEN "F"
    ELSE IF a = "N" \/ b = "N" THEN "N"
    ELSE "T"

Or3(a, b) ==
    IF a = "E" \/ b = "E" THEN "E"
    ELSE IF a = "T" \/ b = "T" THEN "T"
    ELSE IF a = "N" \/ b = "N" THEN "N"
    ELSE "F"

Not3(a) == CASE a = "T" -> "F" [] a = "F" -> "T" [] OTHER -> a

RECURSIVE Fold3(_, _, _)
Fold3(isAnd, vals, acc) ==
    IF vals = << >> THEN acc
    ELSE Fold3(isAnd, Tail(vals), IF isAnd THEN And3(acc, Head(vals)) ELSE Or3(acc, Head(vals)))

RECURSIVE Eval(_, _)
Eval(e, row) ==
    CASE e.k = "and" -> Fold3(TRUE, [i \in DOMAIN e.args |-> Eval(e.args[i], row)], "T")
      [] e.k = "or" -> Fold3(FALSE, [i \in DOMAIN e.args |-> Eval(e.args[i], row)], "F")
      [] e.k = "not" -> Not3(Eval(e.e, row))
      [] e.k = "case" ->
            LET w == Eval(e.when, row)
            IN IF w = "E" THEN "E" ELSE IF w = "T" THEN Eval(e.then, row) ELSE "F"
      [] e.k = "typeof_eq" ->
            LET x == EvalEntity(e.e, row)
            IN IF x.jt = "error" THEN "E" ELSE IF x.jt = "missing" THEN "N"
               ELSE Bool3(x.jt = e.tag)
      [] e.k = "cmp" -> Compare(e.op, EvalEntity(e.lhs, row), e.rhs)
      [] e.k \in {"contains", "has_key"} ->
            LET x == EvalEntity(e.e, row)
            IN IF x.jt = "error" THEN "E" ELSE IF x.jt = "missing" THEN "N"
               ELSE Bool3(x.jt \in {"array", "object"} /\ x.n = e.v.n)
      [] OTHER -> "E"

\* the comparisons a predicate evaluates on the row: the operands the engine
\* computes, a type-guarded branch only when its guard is true
RECURSIVE Evaluated(_, _)
Evaluated(e, row) ==
    CASE e.k \in {"and", "or"} -> UNION {Evaluated(e.args[i], row) : i \in DOMAIN e.args}
      [] e.k = "not" -> Evaluated(e.e, row)
      [] e.k = "case" -> IF Eval(e.when, row) = "T" THEN Evaluated(e.then, row) ELSE {}
      [] e.k = "cmp" -> {e}
      [] OTHER -> {}

------------------------------------------------------------------------------
(* The builder.  Its fields are threaded through the build as one record b;  *)
(* a build in progress is r = [b, err, projection_count], err being << >>    *)
(* until a statement raises, and every statement after a raise is skipped.   *)
(* aliased() and session.query() make new objects: an alias and a query      *)
(* carry the identity bid of the build that made them.                       *)

\* Query([]) of __init__
EmptyQuery ==
    [id |-> 0, entities |-> << >>, joins |-> << >>, whereclauses |-> << >>,
     order_by |-> << >>, limit |-> None, offset |-> None, distinct |-> FALSE,
     has_mapper_entities |-> TRUE]

Fail(r, e) == [r EXCEPT !.err = Some(e)]

Failed(r) == r.err # None

\* _get_tag_alias: self._tag_to_alias[tag], KeyError when the tag has no alias
\* (no alias of the table is ever None)
_get_tag_alias(b, tag) ==
    IF tag \in DOMAIN b.tag_to_alias THEN Ok(b.tag_to_alias[tag])
    ELSE Raise("KeyError", "tag", <<tag>>)

\* the last vertex of the path that carries the tag
LastOf(path, t) ==
    CHOOSE i \in DOMAIN path : path[i].tag = t /\ \A j \in DOMAIN path : path[j].tag = t => j <= i

\* rebuild_aliases: a new alias per path vertex, a later vertex of the same tag
\* replacing an earlier one
rebuild_aliases(b, bid) ==
    [b EXCEPT !.tag_to_alias =
        [t \in {b.data.path[i].tag : i \in DOMAIN b.data.path} |->
            [cls |-> b.data.path[LastOf(b.data.path, t)].orm_base, tag |-> t, bid |-> bid]]]

EntityOf(alias) == [k |-> "entity", cls |-> alias.cls, tag |-> alias.tag]

\* lines 465-469: partial(func, self._query, self._get_tag_alias(joining_value)),
\* joined being what _get_tag_alias gave
JoinPartial(func, joining_value, joined) ==
    IF ~joined.ok THEN Raise("ValueError", "joining_value tag not in", joining_value)
    ELSE Ok([strategy |-> func[1], from |-> joined.v])

\* lines 460-470 with an error text that leaves out the calling entity
JoinFuncOf_KeywordOnly(b, calling_entity, joining_keyword, joining_value, func) ==
    IF func = None
    THEN Raise("ValueError", "is not a valid joining keyword", joining_keyword)
    ELSE IF joining_value = None
    THEN Raise("ValueError", "'joining_value' value is not a string", << >>)
    ELSE JoinPartial(func, joining_value, _get_tag_alias(b, joining_value[1]))

\* lines 460-470, func being the strategy found, << >> for the KeyError
JoinFuncOf(b, calling_entity, joining_keyword, joining_value, func) ==
    IF func = None
    THEN Raise("ValueError", "is not a valid joining keyword for a type entity",
               joining_keyword \o <<calling_entity>>)
    ELSE IF joining_value = None
    THEN Raise("ValueError", "'joining_value' value is not a string", << >>)
    ELSE JoinPartial(func, joining_value, _get_tag_alias(b, joining_value[1]))

\* _build_join_func: the strategy and the alias joined from, or ValueError
_build_join_func(b, index, joining_keyword, joining_value) ==
    JoinFuncOf(b, b.data.path[index].orm_base, joining_keyword, joining_value,
               IF joining_keyword = None THEN None
               ELSE JoinStrategy(b.data.path[index].orm_base, joining_keyword[1]))

\* any('path' in d.keys() for d in items)
ProjectsPath(items) == \E i \in DOMAIN items : items[i].field = <<"path">>

\* filter_spec.get('path', None): << >> for a missing key and for a None value
PathFilter(filter_spec) ==
    IF ~DictHas(filter_spec, <<"path">>) THEN None
    ELSE IF DictGet(filter_spec, <<"path">>, << >>).ty = "NoneType" THEN None
    ELSE Some(DictGet(filter_spec, <<"path">>, << >>))

\* lines 348-349: the `or` does not look at project[edge_tag] once the filter
\* of edge_tag has a path key; a missing key of filters or project is a KeyError
ExpandPath(b, edge_tag) ==
    IF edge_tag = None \/ ~DictHas(b.data.filters, edge_tag[1])
    THEN Raise("KeyError", "filters", edge_tag)
    ELSE IF PathFilter(DictGet(b.data.filters, edge_tag[1], << >>)) # None
    THEN Ok(TRUE)
    ELSE IF ~DictHas(b.data.project, edge_tag[1])
    THEN Raise("KeyError", "project", edge_tag)
    ELSE Ok(ProjectsPath(DictGet(b.data.project, edge_tag[1], << >>)))

\* lines 355-356: the alias of the edge bound under edge_tag when the strategy
\* made one
BindEdge(tag_to_alias, edge_tag, aliased_edge, bid) ==
    IF aliased_edge = None THEN tag_to_alias
    ELSE [t \in DOMAIN tag_to_alias \cup {edge_tag[1]} |->
             IF t = edge_tag[1] THEN [cls |-> aliased_edge[1], tag |-> t, bid |-> bid]
             ELSE tag_to_alias[t]]

\* lines 351-356: the join applied to the query
ApplyJoin(r, verticespec, join_func, expand_path, join_to) ==
    [r EXCEPT !.b.query.joins =
                  Append(@, [strategy |-> join_func.strategy,
                             from |-> EntityOf(join_func.from),
                             to |-> EntityOf(join_to),
                             isouterjoin |-> verticespec.outerjoin,
                             filter_dict |-> DictGet(r.b.data.filters,
                                                     verticespec.joining_value[1], << >>),
                             expand_path |-> expand_path]),
              !.b.tag_to_alias =
                  BindEdge(@, verticespec.edge_tag, EdgeClass(join_func.strategy), join_to.bid)]

\* lines 338-356 for one vertex, join_func and expand_path being what line 339
\* and lines 348-349 gave
JoinVertex(r, verticespec, join_func, expand_path) ==
    IF ~join_func.ok THEN Fail(r, join_func)
    ELSE IF ~expand_path.ok THEN Fail(r, expand_path)
    ELSE ApplyJoin(r, verticespec, join_func.v, expand_path.v,
                   r.b.tag_to_alias[verticespec.tag])

\* lines 337-356: the joins of vertices index..n (index counts from 1, the
\* path's first vertex being 1)
RECURSIVE BuildJoins(_, _)
BuildJoins(r, index) ==
    IF Failed(r) \/ index > Len(r.b.data.path) THEN r
    ELSE BuildJoins(JoinVertex(r, r.b.data.path[index],
                               _build_join_func(r.b, index,
                                                r.b.data.path[index].joining_keyword,
                                                r.b.data.path[index].joining_value),
                               ExpandPath(r.b, r.b.data.path[index].edge_tag)),
                    index + 1)

\* line 367: self._query.filter(...), expr being what build_filters gave
AddFilter(r, expr) ==
    IF ~expr.ok THEN Fail(r, expr)
    ELSE [r EXCEPT !.b.query.whereclauses = Append(@, expr.v)]

\* lines 361-367 for one tag, alias being what _get_tag_alias gave
FilterTag(r, tag, filter_specs, alias) ==
    IF filter_specs = << >> THEN r
    ELSE IF ~alias.ok THEN Fail(r, Raise("ValueError", "Unknown tag in filters", <<tag>>))
    ELSE AddFilter(r, build_filters(alias.v, filter_specs))

\* lines 360-367: the filters of the tags i..n of the filters dict
RECURSIVE BuildFilters(_, _)
BuildFilters(r, i) ==
    IF Failed(r) \/ i > Len(r.b.data.filters) THEN r
    ELSE BuildFilters(FilterTag(r, r.b.data.filters[i][1], r.b.data.filters[i][2],
                                _get_tag_alias(r.b, r.b.data.filters[i][1])),
                      i + 1)

\* lines 590-606: the cast applied to entity = column[attrpath]; no cast leaves
\* the JSON entity as it is
CastEntity(entity, cast_) ==
    IF cast_ = None THEN Ok(entity)
    ELSE CASE cast_[1] = "f" -> Ok(cast(astext(entity), "Float"))
           [] cast_[1] = "i" -> Ok(cast(astext(entity), "Integer"))
           [] cast_[1] = "b" -> Ok(cast(astext(entity), "Boolean"))
           [] cast_[1] = "t" -> Ok(astext(entity))
           [] cast_[1] = "j" -> Ok(cast(astext(entity), "JSONB"))
           [] cast_[1] = "d" -> Ok(cast(astext(entity), "DateTime"))
           [] OTHER -> Raise("ValueError", "Unknown casting key", cast_)

\* lines 589-606, column being what get_column gave
AttributeOf(column, attrpath, cast_) ==
    IF ~column.ok THEN column
    ELSE CastEntity([k |-> "json", col |-> column.v, path |-> attrpath], cast_)

get_projectable_attribute(alias, column_name, attrpath, cast_) ==
    AttributeOf(get_column(column_name, alias), attrpath, cast_)

_get_projectable_entity(alias, column_name, attrpath, cast_) ==
    IF attrpath # << >> \/ column_name \in {"attributes", "extras"}
    THEN get_projectable_attribute(alias, column_name, attrpath, cast_)
    ELSE get_column(column_name, alias)

\* sa_func.<name>(entity)
sa_func(name, entity) == [k |-> "func", name |-> name, e |-> entity]

\* lines 554-563: the aggregate wrapped around the column for func
ApplyFunc(func, entity_to_project) ==
    IF func = None THEN Ok(entity_to_project)
    ELSE CASE func[1] = "max" -> Ok(sa_func("max", entity_to_project))
           [] func[1] = "min" -> Ok(sa_func("max", entity_to_project))
           [] func[1] = "count" -> Ok(sa_func("count", entity_to_project))
           [] OTHER -> Raise("ValueError", "Invalid function specification", func)

\* line 564: self._query.add_columns(...), wrapped being what lines 554-563 gave
AddColumns(q, wrapped) ==
    IF ~wrapped.ok THEN wrapped ELSE Ok([q EXCEPT !.entities = Append(@, wrapped.v)])

\* lines 553-564, entity_to_project being what _get_projectable_entity gave
AddEntityToProject(q, entity_to_project, func) ==
    IF ~entity_to_project.ok THEN entity_to_project
    ELSE AddColumns(q, ApplyFunc(func, entity_to_project.v))

\* _add_to_projections: the query with the projected entity or column added
_add_to_projections(q, alias, projectable_entity_name, cast_, func) ==
    IF Head(projectable_entity_name) = "*"
    THEN IF func # None
         THEN Raise("ValueError", "functions on the aliased class will not work", func)
         ELSE Ok([q EXCEPT !.entities = Append(@, EntityOf(alias))])
    ELSE AddEntityToProject(q,
                            _get_projectable_entity(alias, Head(projectable_entity_name),
                                                    Tail(projectable_entity_name), cast_),
                            func)

\* self._tag_to_projected_fields[tag][property_name] = position
SetField(fields, tag, property_name, position) ==
    [fields EXCEPT ![tag] =
        [f \in DOMAIN @ \cup {property_name} |-> IF f = property_name THEN position ELSE @[f]]]

\* lines 518-520 with the count raised before the position is recorded
ProjectName_CountFirst(r, tag, property_name, added) ==
    IF ~added.ok THEN Fail(r, added)
    ELSE [r EXCEPT !.b.query = added.v,
                   !.b.tag_to_projected_fields =
                       SetField(@, tag, property_name, r.projection_count + 1),
                   !.projection_count = @ + 1]

\* lines 518-520 for one property name, added being what _add_to_projections gave
ProjectName(r, tag, property_name, added) ==
    IF ~added.ok THEN Fail(r, added)
    ELSE [r EXCEPT !.b.query = added.v,
                   !.b.tag_to_projected_fields = SetField(@, tag, property_name, r.projection_count),
                   !.projection_count = @ + 1]

\* lines 517-520: the property names i..n of one projection item
RECURSIVE ProjectNames(_, _, _, _, _, _)
ProjectNames(r, tag, alias, property_names, item, i) ==
    IF Failed(r) \/ i > Len(property_names) THEN r
    ELSE ProjectNames(ProjectName(r, tag, property_names[i],
                                  _add_to_projections(r.b.query, alias, property_names[i],
                                                      item.cast, item.func)),
                      tag, alias, property_names, item, i + 1)

\* lines 510-515: the property names of one projection item
PropertyNames(alias, projectable_entity_name) ==
    IF projectable_entity_name = <<"**">>
    THEN modify_expansions(alias, get_column_names(alias))
    ELSE modify_expansions(alias, <<projectable_entity_name>>)

\* lines 509-520 for one projection item, property_names being what lines
\* 510-515 gave
ProjectItem(r, tag, alias, item, property_names) ==
    IF ~property_names.ok THEN Fail(r, property_names)
    ELSE ProjectNames(r, tag, alias, property_names.v, item, 1)

\* lines 508-520: the projection items i..n of one tag
RECURSIVE ProjectItems(_, _, _, _, _)
ProjectItems(r, tag, alias, project_dict, i) ==
    IF Failed(r) \/ i > Len(project_dict) THEN r
    ELSE ProjectItems(ProjectItem(r, tag, alias, project_dict[i],
                                  PropertyNames(alias, project_dict[i].field)),
                      tag, alias, project_dict, i + 1)

\* lines 501-520, alias being what _get_tag_alias gave
ProjectTag(r, tag, project_dict, alias) ==
    IF Failed(r) \/ project_dict = << >> THEN r
    ELSE IF ~alias.ok THEN Fail(r, alias)
    ELSE ProjectItems([r EXCEPT !.b.tag_to_projected_fields =
                           [t \in DOMAIN @ \cup {tag} |-> IF t = tag THEN << >> ELSE @[t]]],
                      tag, alias.v, project_dict, 1)

\* _build_projections; items_to_project is << >> for None
_build_projections(r, tag, items_to_project) ==
    ProjectTag(r, tag,
               IF items_to_project = None THEN DictGet(r.b.data.project, tag, << >>)
               ELSE items_to_project[1],
               _get_tag_alias(r.b, tag))

\* lines 390-391: the vertices i..n of the path
RECURSIVE ProjectVertices(_, _)
ProjectVertices(r, i) ==
    IF Failed(r) \/ i > Len(r.b.data.path) THEN r
    ELSE ProjectVertices(_build_projections(r, r.b.data.path[i].tag, None), i + 1)

\* lines 395-403: the edge tags of the vertices i..n of the path
RECURSIVE ProjectEdges(_, _)
ProjectEdges(r, i) ==
    IF Failed(r) \/ i > Len(r.b.data.path) THEN r
    ELSE ProjectEdges(IF r.b.data.path[i].edge_tag # None
                      THEN _build_projections(r, r.b.data.path[i].edge_tag[1], None)
                      ELSE r,
                      i + 1)

\* lines 380-403 with the first vertex of the path as the default
ProjectAll_FirstVertex(r) ==
    IF ~\E i \in DOMAIN r.b.data.project : r.b.data.project[i][2] # << >>
    THEN _build_projections(r, r.b.data.path[1].tag,
                            Some(<< [field |-> <<"*">>, cast |-> None, func |-> None] >>))
    ELSE ProjectEdges(ProjectVertices(r, 1), 2)

\* lines 380-403, the maps having been cleared
ProjectAll(r) ==
    IF ~\E i \in DOMAIN r.b.data.project : r.b.data.project[i][2] # << >>
    THEN _build_projections(r, r.b.data.path[Len(r.b.data.path)].tag,
                            Some(<< [field |-> <<"*">>, cast |-> None, func |-> None] >>))
    ELSE ProjectEdges(ProjectVertices(r, 1), 2)

\* lines 375-403
BuildProjections(r) ==
    IF Failed(r) THEN r
    ELSE ProjectAll([r EXCEPT !.b.tag_to_projected_fields = << >>, !.projection_count = 0])

\* lines 483-488, entity being what _get_projectable_entity gave
OrderBy(q, entity, order) ==
    IF ~entity.ok THEN entity
    ELSE IF order = "desc" THEN Ok([q EXCEPT !.order_by = Append(@, [k |-> "desc", e |-> entity.v])])
    ELSE IF order # "asc" THEN Raise("ValueError", "Unknown 'order' key", <<order>>)
    ELSE Ok([q EXCEPT !.order_by = Append(@, entity.v)])

\* _build_order_by without the test of line 476 for a cast
_build_order_by_NoCastTest(q, alias, field_key, entityspec) ==
    OrderBy(q,
            _get_projectable_entity(alias, Head(field_key), Tail(field_key), entityspec.cast),
            IF entityspec.order = None THEN "asc" ELSE entityspec.order[1])

\* _build_order_by
_build_order_by(q, alias, field_key, entityspec) ==
    IF Tail(field_key) # << >> /\ entityspec.cast = None
    THEN Raise("ValueError", "To order_by, the value has to be cast", field_key)
    ELSE OrderBy(q,
                 _get_projectable_entity(alias, Head(field_key), Tail(field_key),
                                         entityspec.cast),
                 IF entityspec.order = None THEN "asc" ELSE entityspec.order[1])

\* line 411 for one entity, q being what _build_order_by gave
OrderEntity(r, q) == IF ~q.ok THEN Fail(r, q) ELSE [r EXCEPT !.b.query = q.v]

\* lines 409-411: the entries j..n of the entity list of one tag
RECURSIVE OrderEntities(_, _, _, _)
OrderEntities(r, alias, entity_list, j) ==
    IF Failed(r) \/ j > Len(entity_list) THEN r
    ELSE OrderEntities(OrderEntity(r, _build_order_by(r.b.query, alias, entity_list[j].field,
                                                      entity_list[j])),
                       alias, entity_list, j + 1)

\* lines 408-411 for one tag, alias being what _get_tag_alias gave
OrderTag(r, alias, entity_list) ==
    IF ~alias.ok THEN Fail(r, alias) ELSE OrderEntities(r, alias.v, entity_list, 1)

\* lines 406-411: the order_by entries i..n, each one tag with its entity list
RECURSIVE BuildOrder(_, _)
BuildOrder(r, i) ==
    IF Failed(r) \/ i > Len(r.b.data.order_by) THEN r
    ELSE BuildOrder(OrderTag(r, _get_tag_alias(r.b, r.b.data.order_by[i][1]),
                             r.b.data.order_by[i][2]),
                    i + 1)

\* the (tag, field) pairs of tag_to_projected_fields
ProjectedPairs(fields) == UNION {{<<t, f>> : f \in DOMAIN fields[t]} : t \in DOMAIN fields}

\* lines 437-440: position -> field over every tag's projected fields
ProjectionIndex(fields) ==
    [p \in {fields[x[1]][x[2]] : x \in ProjectedPairs(fields)} |->
        (CHOOSE x \in ProjectedPairs(fields) : fields[x[1]][x[2]] = p)[2]]

\* lines 414-415
WithLimit(q, data) == IF data.limit # None THEN [q EXCEPT !.limit = data.limit] ELSE q

\* lines 418-419
WithOffset(q, data) == IF data.offset # None THEN [q EXCEPT !.offset = data.offset] ELSE q

\* lines 423 and 433
PopFirstEntity(q) == [q EXCEPT !.entities = Tail(@), !.has_mapper_entities = FALSE]

\* lines 442-447 without the comparison of line 442
CheckDuplicates_NoCheck(r) == IF r.b.data.distinct THEN [r EXCEPT !.b.query.distinct = TRUE] ELSE r

\* lines 442-447
CheckDuplicates(r) ==
    IF r.projection_count > Cardinality(DOMAIN r.b.projection_index_to_field)
    THEN Fail(r, Raise("ValueError",
                       "You are projecting the same key multiple times within the same node",
                       << >>))
    ELSE IF r.b.data.distinct THEN [r EXCEPT !.b.query.distinct = TRUE]
    ELSE r

\* lines 413-447: limit, offset, the first entity popped, the index, the
\* duplicate check, distinct
BuildFinish(r) ==
    IF Failed(r) THEN r
    ELSE CheckDuplicates(
             [r EXCEPT !.b.query = PopFirstEntity(WithOffset(WithLimit(@, r.b.data), r.b.data)),
                       !.b.projection_index_to_field =
                           ProjectionIndex(r.b.tag_to_projected_fields)])

\* lines 332-333: the query started on the first alias; exec_fails: the
\* session raises when asked for the query
StartQuery(b, bid, exec_fails) ==
    IF exec_fails
    THEN [b |-> b, err |-> Some(Raise("OperationalError", "session", << >>)),
          projection_count |-> 0]
    ELSE [b |-> [b EXCEPT !.query =
                     [EmptyQuery EXCEPT !.id = bid,
                                        !.entities = <<EntityOf(b.tag_to_alias[b.data.path[1].tag])>>]],
          err |-> None, projection_count |-> 0]

\* _build with the order_by phase before the projections
_build_OrderFirst(b, bid, exec_fails) ==
    BuildFinish(BuildProjections(BuildOrder(BuildFilters(BuildJoins(
        StartQuery(rebuild_aliases(b, bid), bid, exec_fails), 2), 1), 1)))

\* _build; bid is the identity of the objects this build creates
_build(b, bid, exec_fails) ==
    BuildFinish(BuildOrder(BuildProjections(BuildFilters(BuildJoins(
        StartQuery(rebuild_aliases(b, bid), bid, exec_fails), 2), 1)), 1))

\* aiida.common.hashing.make_hash: a digest of the content of the spec, equal
\* for equal content only
make_hash(data) == [digest_of |-> data]

\* lines 297-300, r being the build as _build left it
StoreHash(r, query_hash) ==
    IF Failed(r) THEN [b |-> r.b, ret |-> r.err[1]]
    ELSE [b |-> [r.b EXCEPT !.hash = Some(query_hash)], ret |-> Ok(r.b.query)]

\* update_query without the test of line 292: every call builds
update_query_NoCache(b, data, bid, exec_fails) ==
    StoreHash(_build([b EXCEPT !.data = data], bid, exec_fails), make_hash(data))

\* update_query: the builder after the call and what the call gives its caller
update_query(b, data, bid, exec_fails) ==
    IF b.hash # None /\ b.hash = Some(make_hash(data))
    THEN [b |-> b, ret |-> Ok(b.query)]
    ELSE StoreHash(_build([b EXCEPT !.data = data], bid, exec_fails), make_hash(data))

------------------------------------------------------------------------------
(* Execution and decoding: count, yield_per, first, iterall, iterdict.       *)
(* u is what update_query gave: the builder after it and the query or the    *)
(* raise; x is what the execution collaborator does when it is called.       *)

\* the most rows one query execution gives in the model
MaxRows == 2

\* one value of row i as the execution collaborator gives it
RowValue(i, e) == [row |-> i, of |-> e, backend |-> FALSE]

\* Row number i of a query as the execution collaborator gives it: the bare
\* entity when the query has exactly one entity and that is a mapped class,
\* else a tuple with one element per entity of the query (lines 217-225)
RowOf(q, i) ==
    IF Len(q.entities) = 1 /\ q.entities[1].k = "entity"
    THEN [is_tuple |-> FALSE, items |-> <<RowValue(i, q.entities[1])>>]
    ELSE [is_tuple |-> TRUE, items |-> [j \in DOMAIN q.entities |-> RowValue(i, q.entities[j])]]

\* to_backend: a model instance becomes a backend entity, any other value is
\* given back as it is
to_backend(res) == IF res.of.k = "entity" THEN [res EXCEPT !.backend = TRUE] ELSE res

\* what the caller of an operation gets, and what the operation did to the
\* collaborator on the way: the calls it made, whether it closed the session
Outcome(op, data, ret, calls, closed) ==
    [op |-> op, arg |-> data, ret |-> ret, calls |-> calls, closed |-> closed]

ExecError == Raise("OperationalError", "execute", << >>)

\* self.get_session().close()
Close(b) == [b EXCEPT !.session = "idle"]

\* the session has run a statement
Used(b) == [b EXCEPT !.session = "open"]

\* count: x is <<"raise">> or <<"ok", n>>
count(u, data, x) ==
    IF ~u.ret.ok THEN [b |-> u.b, out |-> Outcome("count", data, u.ret, << >>, FALSE)]
    ELSE IF x[1] = "raise"
    THEN [b |-> Close(u.b), out |-> Outcome("count", data, ExecError, <<"count">>, TRUE)]
    ELSE [b |-> Used(u.b), out |-> Outcome("count", data, Ok(x[2]), <<"count">>, FALSE)]

\* yield_per: x is <<"raise">> or <<"ok">>; the rows are fetched by whoever iterates
yield_per(u, data, x) ==
    IF ~u.ret.ok THEN [b |-> u.b, out |-> Outcome("yield_per", data, u.ret, << >>, FALSE)]
    ELSE IF x[1] = "raise"
    THEN [b |-> Close(u.b), out |-> Outcome("yield_per", data, ExecError, <<"yield_per">>, TRUE)]
    ELSE [b |-> u.b, out |-> Outcome("yield_per", data, u.ret, <<"yield_per">>, FALSE)]

\* lines 198-204: result is the row as a list
FirstResult(index, result) ==
    IF index = << >> \/ Len(result) # Cardinality(DOMAIN index)
    THEN Raise("Exception",
               "length of query result does not match the number of specified projections",
               << >>)
    ELSE Ok(Some([i \in DOMAIN result |-> to_backend(result[i])]))

\* first: x is <<"raise">>, <<"none">> (no row) or <<"row">>
first(u, data, x) ==
    IF ~u.ret.ok THEN [b |-> u.b, out |-> Outcome("first", data, u.ret, << >>, FALSE)]
    ELSE IF x[1] = "raise"
    THEN [b |-> Close(u.b), out |-> Outcome("first", data, ExecError, <<"first">>, TRUE)]
    ELSE IF x[1] = "none"
    THEN [b |-> Used(u.b), out |-> Outcome("first", data, Ok(None), <<"first">>, FALSE)]
    ELSE [b |-> Used(u.b),
          out |-> Outcome("first", data,
                          FirstResult(u.b.projection_index_to_field, RowOf(u.ret.v, 1).items),
                          <<"first">>, FALSE)]

\* no lazy row sequence in flight
NoGen == [kind |-> "none"]

\* a row handed on as one value, where the code does not unpack it
AsValue(i, row) ==
    IF row.is_tuple THEN [row |-> i, of |-> [k |-> "tuple", items |-> row.items], backend |-> FALSE]
    ELSE row.items[1]

\* `for rowitem, in results`: the one element of the row
Unpack(row) ==
    IF ~row.is_tuple THEN Raise("TypeError", "cannot unpack non-iterable", << >>)
    ELSE IF Len(row.items) # 1 THEN Raise("ValueError", "values to unpack", << >>)
    ELSE Ok(row.items[1])

\* [self.to_backend(rowitem)], rowitem being the unpacked row or the raise
OneItem(rowitem) == IF ~rowitem.ok THEN rowitem ELSE Ok(<<to_backend(rowitem.v)>>)

\* lines 216-230: one row of iterall, decoded with the index the generator
\* read when it started
iterall_row(tag_to_index_dict, i, row) ==
    IF Cardinality(DOMAIN tag_to_index_dict) = 1
    THEN IF Range(tag_to_index_dict) = {<<"*">>}
         THEN Ok(<<to_backend(AsValue(i, row))>>)
         ELSE OneItem(Unpack(row))
    ELSE IF ~row.is_tuple THEN Raise("TypeError", "object is not iterable", << >>)
    ELSE Ok([j \in DOMAIN row.items |-> to_backend(row.items[j])])

\* the key of one field in a row of iterdict
OuterName(b, tag, attrkey) ==
    get_corresponding_property(get_table_name(b.tag_to_alias[tag]), attrkey,
                               inner_to_outer_schema)

\* every position recorded in tag_to_projected_fields
Positions(fields) == UNION {{fields[t][f] : f \in DOMAIN fields[t]} : t \in DOMAIN fields}

\* the field of tag that a key of the yielded dict stands for (a dict keeps
\* one field under each key)
FieldUnder(b, tag, name) ==
    CHOOSE g \in DOMAIN b.tag_to_projected_fields[tag] : OuterName(b, tag, g) = name

\* the dict of lines 247-254, 260-266 and 269-275; this_result is the value of
\* a position (lines 247-254) or the one value of the row
RowDict(b, nr_items, row, this_result) ==
    [t \in DOMAIN b.tag_to_projected_fields |->
        [name \in {OuterName(b, t, f) : f \in DOMAIN b.tag_to_projected_fields[t]} |->
            to_backend(IF nr_items > 1
                       THEN row.items[b.tag_to_projected_fields[t][FieldUnder(b, t, name)] + 1]
                       ELSE this_result.v)]]

\* lines 245-275 after the row was taken from the cursor
DecodeDict(b, nr_items, row, this_result) ==
    IF nr_items = 1 /\ ~this_result.ok THEN this_result
    ELSE IF \E t \in DOMAIN b.tag_to_projected_fields : t \notin DOMAIN b.tag_to_alias
    THEN Raise("KeyError", "tag", << >>)
    ELSE IF nr_items > 1 /\ Positions(b.tag_to_projected_fields) # {} /\ ~row.is_tuple
    THEN Raise("TypeError", "object is not subscriptable", << >>)
    ELSE IF nr_items > 1 /\ \E p \in Positions(b.tag_to_projected_fields) : p + 1 > Len(row.items)
    THEN Raise("IndexError", "index out of range", << >>)
    ELSE Ok(RowDict(b, nr_items, row, this_result))

\* lines 245-275: one row of iterdict, decoded with the builder's maps and
\* aliases as they are when the row is decoded; nr_items and star were
\* computed when the generator started
iterdict_row(b, nr_items, star, i, row) ==
    DecodeDict(b, nr_items, row, IF star THEN Ok(AsValue(i, row)) ELSE Unpack(row))

\* one row decoded by the generator of the kind
DecodeRow(kind, b, tag_to_index_dict, nr_items, star, i, row) ==
    IF kind = "iterall" THEN iterall_row(tag_to_index_dict, i, row)
    ELSE iterdict_row(b, nr_items, star, i, row)

\* the generator ends, by a raise or by the end of the rows
GenStop(kind, data, b, ret, calls, closed) ==
    [b |-> b, gen |-> NoGen, out |-> Outcome(kind, data, ret, calls, closed)]

\* the generator yields the decoded row, or ends when decoding raises
GenYield(g, b, decoded, calls) ==
    IF ~decoded.ok THEN GenStop(g.kind, g.data, Close(b), decoded, calls, TRUE)
    ELSE [b |-> Used(b), gen |-> g, out |-> Outcome(g.kind, g.data, decoded, calls, FALSE)]

\* sum(len(v) for v in self._tag_to_projected_fields.values())
NrItems(fields) == Cardinality(UNION {{<<t, f>> : f \in DOMAIN fields[t]} : t \in DOMAIN fields})

\* [v for entityd in fields.values() for v in entityd.keys()] == ['*'], for
\* one item in all
IsStar(fields) == UNION {DOMAIN fields[t] : t \in DOMAIN fields} = {<<"*">>}

\* the generator's local variables after its first row
GenOf(kind, data, query, b) ==
    [kind |-> kind, data |-> data, query |-> query,
     tag_to_index_dict |-> b.projection_index_to_field,
     nr_items |-> NrItems(b.tag_to_projected_fields),
     star |-> IsStar(b.tag_to_projected_fields), i |-> 1]

\* lines 211-212 and 239-242
EmptyProjection(kind, b) ==
    IF kind = "iterall" THEN b.projection_index_to_field = << >>
    ELSE NrItems(b.tag_to_projected_fields) = 0

\* The first next() of a generator made by iterall(data) or iterdict(data):
\* the code up to its first yield.  x is what the collaborator does:
\* <<"raise">> (yield_per raises), <<"fetch_raise">>, <<"end">> (no row) or
\* <<"row">>.
gen_start(kind, u, data, x) ==
    IF ~u.ret.ok THEN GenStop(kind, data, u.b, u.ret, << >>, FALSE)
    ELSE IF EmptyProjection(kind, u.b)
    THEN GenStop(kind, data, Close(u.b),
                 Raise(IF kind = "iterall" THEN "Exception" ELSE "ValueError",
                       "Got an empty dictionary", << >>),
                 << >>, TRUE)
    ELSE IF x[1] = "raise"
    THEN GenStop(kind, data, Close(u.b), ExecError, <<"yield_per">>, TRUE)
    ELSE IF x[1] = "fetch_raise"
    THEN GenStop(kind, data, Close(u.b), ExecError, <<"yield_per", "fetch">>, TRUE)
    ELSE IF x[1] = "end"
    THEN GenStop(kind, data, Used(u.b), Raise("StopIteration", "", << >>),
                 <<"yield_per", "fetch">>, FALSE)
    ELSE GenYield(GenOf(kind, data, u.ret.v, u.b), u.b,
                  DecodeRow(kind, u.b, u.b.projection_index_to_field,
                            NrItems(u.b.tag_to_projected_fields),
                            IsStar(u.b.tag_to_projected_fields), 1, RowOf(u.ret.v, 1)),
                  <<"yield_per", "fetch">>)

\* A later next() of the generator g: the loop body resumed after its yield.
\* x is <<"fetch_raise">>, <<"end">> or <<"row">>.
gen_next(b, g, x) ==
    IF x[1] = "fetch_raise" THEN GenStop(g.kind, g.data, Close(b), ExecError, <<"fetch">>, TRUE)
    ELSE IF x[1] = "end"
    THEN GenStop(g.kind, g.data, Used(b), Raise("StopIteration", "", << >>), <<"fetch">>, FALSE)
    ELSE GenYield([g EXCEPT !.i = @ + 1], b,
                  DecodeRow(g.kind, b, g.tag_to_index_dict, g.nr_items, g.star, g.i + 1,
                            RowOf(g.query, g.i + 1)),
                  <<"fetch">>)

------------------------------------------------------------------------------
(* The state machine: one action per operation of the builder.               *)

\* the builder's fields as one record
B ==
    [tag_to_alias |-> _tag_to_alias,
     projection_index_to_field |-> _projection_index_to_field,
     tag_to_projected_fields |-> _tag_to_projected_fields,
     data |-> _data, query |-> _query, hash |-> _hash, session |-> session]

SetB(b) ==
    /\ _tag_to_alias' = b.tag_to_alias
    /\ _projection_index_to_field' = b.projection_index_to_field
    /\ _tag_to_projected_fields' = b.tag_to_projected_fields
    /\ _data' = b.data
    /\ _query' = b.query
    /\ _hash' = b.hash
    /\ session' = b.session

\* the objects still referenced: the resident query, the aliases, the query a
\* generator iterates over
LiveIds ==
    {_query.id} \cup {_tag_to_alias[t].bid : t \in DOMAIN _tag_to_alias}
    \cup (IF gen.kind = "none" THEN {} ELSE {gen.query.id})

\* The identity of the objects a new build creates: different from every
\* object still referenced
NewId == Min((1 .. Cardinality(LiveIds) + 1) \ LiveIds)

\* the rows an execution of q can give: at most its limit
RowNumbers(q) == {n \in 1 .. MaxRows : q.limit = None \/ n <= q.limit[1]}

\* the builder's fields after __init__ (lines 78-110); None for
\* _projection_index_to_field is the empty map
NewBuilder ==
    [tag_to_alias |-> << >>,
     projection_index_to_field |-> << >>,
     tag_to_projected_fields |-> << >>,
     data |-> [path |-> << >>, filters |-> << >>, project |-> << >>, order_by |-> << >>,
               offset |-> None, limit |-> None, distinct |-> FALSE],
     query |-> EmptyQuery, hash |-> None, session |-> "idle"]

InitBuilder ==
    /\ _tag_to_alias = NewBuilder.tag_to_alias
    /\ _projection_index_to_field = NewBuilder.projection_index_to_field
    /\ _tag_to_projected_fields = NewBuilder.tag_to_projected_fields
    /\ _data = NewBuilder.data
    /\ _query = NewBuilder.query
    /\ _hash = NewBuilder.hash
    /\ session = NewBuilder.session
    /\ gen = NoGen
    /\ last = Outcome("__init__", None, Ok(None), << >>, FALSE)

\* the operation returns or raises to its caller: c is the builder it leaves
\* and what the caller gets
Return(c) == SetB(c.b) /\ last' = c.out

\* the session can raise during a build only when a build runs
BuildRaises(x, u) == x[1] = "build_raise" => ~u.ret.ok

\* the collaborator gives a first row only when the query can have one
HasRow(x, u) == (x[1] = "row" /\ u.ret.ok) => 1 \in RowNumbers(u.ret.v)

UpdateQueryCall(data, x, u) ==
    /\ BuildRaises(x, u)
    /\ Return([b |-> u.b, out |-> Outcome("update_query", data, u.ret, << >>, FALSE)])
    /\ UNCHANGED <<gen, workload, probe>>

\* update_query(data); x: whether the session raises during the build
UpdateQuery ==
    \E data \in workload, x \in {<<"build_raise">>, <<"ok">>} :
        UpdateQueryCall(data, x, update_query(B, data, NewId, x[1] = "build_raise"))

CountCall(data, x, u) ==
    /\ BuildRaises(x, u)
    /\ (x[1] = "ok" /\ u.ret.ok) => x[2] \in {0} \cup RowNumbers(u.ret.v)
    /\ Return(count(u, data, x))
    /\ UNCHANGED <<gen, workload, probe>>

\* count(data)
Count ==
    \E data \in workload,
       x \in {<<"build_raise">>, <<"raise">>} \cup {<<"ok", n>> : n \in 0 .. MaxRows} :
        CountCall(data, x, update_query(B, data, NewId, x[1] = "build_raise"))

FirstCall(data, x, u) ==
    /\ BuildRaises(x, u)
    /\ HasRow(x, u)
    /\ Return(first(u, data, x))
    /\ UNCHANGED <<gen, workload, probe>>

\* first(data)
First ==
    \E data \in workload, x \in {<<"build_raise">>, <<"raise">>, <<"none">>, <<"row">>} :
        FirstCall(data, x, update_query(B, data, NewId, x[1] = "build_raise"))

YieldPerCall(data, x, u) ==
    /\ BuildRaises(x, u)
    /\ Return(yield_per(u, data, x))
    /\ UNCHANGED <<gen, workload, probe>>

\* yield_per(data, batch_size)
YieldPer ==
    \E data \in workload, x \in {<<"build_raise">>, <<"raise">>, <<"ok">>} :
        YieldPerCall(data, x, update_query(B, data, NewId, x[1] = "build_raise"))

\* the generator runs to its next yield or to its end
Resume(c) == Return(c) /\ gen' = c.gen

GenStartCall(kind, data, x, u) ==
    /\ gen.kind = "none"
    /\ BuildRaises(x, u)
    /\ HasRow(x, u)
    /\ Resume(gen_start(kind, u, data, x))
    /\ UNCHANGED <<workload, probe>>

\* iterall(data, batch_size) or iterdict(data, batch_size) called and its
\* generator advanced to the first yield
GenStart ==
    \E kind \in {"iterall", "iterdict"}, data \in workload,
       x \in {<<"build_raise">>, <<"raise">>, <<"fetch_raise">>, <<"end">>, <<"row">>} :
        GenStartCall(kind, data, x, update_query(B, data, NewId, x[1] = "build_raise"))

\* next() on the generator in flight
GenNext ==
    \E x \in {<<"fetch_raise">>, <<"end">>, <<"row">>} :
        /\ gen.kind # "none"
        /\ x[1] = "row" => gen.i + 1 \in RowNumbers(gen.query)
        /\ Resume(gen_next(B, gen, x))
        /\ UNCHANGED <<workload, probe>>

\* The filter compiler and the storage engine on their own: probe holds a
\* FilterSpec and a row, then the compiled predicate, then its value on the row
Compile ==
    /\ probe # None
    /\ probe.out = None
    /\ probe' = [probe EXCEPT !.out = Some(build_filters(probe.alias, probe.filter))]
    /\ UNCHANGED <<_tag_to_alias, _projection_index_to_field, _tag_to_projected_fields,
                   _data, _query, _hash, session, gen, last, workload>>

Evaluate ==
    /\ probe # None
    /\ probe.out # None
    /\ probe.val = None
    /\ probe.out[1].ok
    /\ probe' = [probe EXCEPT !.val = Some(Eval(probe.out[1].v, probe.row))]
    /\ UNCHANGED <<_tag_to_alias, _projection_index_to_field, _tag_to_projected_fields,
                   _data, _query, _hash, session, gen, last, workload>>

------------------------------------------------------------------------------
(* The query specs the caller hands in.  As the front end does, a spec has   *)
(* an entry in filters and in project for every vertex tag and edge tag      *)
(* unless said otherwise.                                                    *)

Vertex(tag, orm_base) ==
    [tag |-> tag, orm_base |-> orm_base, joining_keyword |-> None, joining_value |-> None,
     edge_tag |-> None, outerjoin |-> FALSE]

Joined(tag, orm_base, joining_keyword, joining_value, edge_tag) ==
    [tag |-> tag, orm_base |-> orm_base, joining_keyword |-> Some(joining_keyword),
     joining_value |-> Some(joining_value), edge_tag |-> edge_tag, outerjoin |-> FALSE]

Item(field) == [field |-> field, cast |-> None, func |-> None]

QuerySpec(path, filters, project, order_by) ==
    [path |-> path, filters |-> filters, project |-> project, order_by |-> order_by,
     offset |-> None, limit |-> None, distinct |-> FALSE]

\* field path -> {operator: value}
Leaf(path_spec, operator, value) == << <<path_spec, OpsVal(<< <<operator, value>> >>)>> >>

\* the paging values a caller asks for
Pagings == {[limit |-> l, offset |-> o] : l \in {None, Some(1)}, o \in {None, Some(1)}}

Paged(S) == {[s EXCEPT !.limit = p.limit, !.offset = p.offset] : s \in S, p \in Pagings}

\* one node, its id projected, filtered on its id
OneNode ==
    QuerySpec(<<Vertex("n", "node")>>,
              << <<"n", Leaf(<<"id">>, <<"==">>, Val("int", 1))>> >>,
              << <<"n", <<Item(<<"id">>)>> >> >>,
              << >>)

\* a node and its computer; project and order_by are filled in by the caller
NodeComputer(filters_n, project_n, project_c, order_by) ==
    QuerySpec(<<Vertex("n", "node"), Joined("c", "computer", "with_node", "n", Some("e"))>>,
              << <<"n", filters_n>>, <<"c", << >> >>, <<"e", << >> >> >>,
              << <<"n", project_n>>, <<"c", project_c>>, <<"e", << >> >> >>,
              order_by)

\* builds to the end: the node, and every column of the computer
TwoOk == NodeComputer(<< >>, <<Item(<<"*">>)>>, <<Item(<<"**">>)>>, << >>)

\* raises in the order_by phase, after its projections were built
BadOrder ==
    NodeComputer(<< >>, <<Item(<<"*">>)>>, <<Item(<<"**">>)>>,
                 << <<"c", << [field |-> <<"id">>, order |-> Some("up"), cast |-> None] >> >> >>)

\* raises in the filter phase, before any projection was built
BadFilter ==
    NodeComputer(Leaf(<<"id">>, <<"foo">>, Val("int", 1)), <<Item(<<"id">>)>>, << >>, << >>)

\* raises in the duplicate check, after the projection index was rebuilt
Duplicate ==
    NodeComputer(<< >>, <<Item(<<"id">>), Item(<<"id">>)>>, <<Item(<<"id">>)>>, << >>)

WorkloadCache == Paged({OneNode}) \cup {BadOrder, BadFilter}

InitCache == InitBuilder /\ workload = WorkloadCache /\ probe = None

\* the builder driven through update_query alone
SpecCache == InitCache /\ [][UpdateQuery]_vars

------------------------------------------------------------------------------
(* The plan cache (claims C1, C2, C3), checked under SpecCache.              *)

\* a build of spec S by a builder that has built nothing before
CleanBuild(S) == _build([NewBuilder EXCEPT !.data = S], 0, FALSE)

\* a query without the identity of the object
Unidentified(q) == [q EXCEPT !.id = 0]

\* an alias table without the identities of the alias objects
AliasClasses(tag_to_alias) == [t \in DOMAIN tag_to_alias |-> EntityOf(tag_to_alias[t])]

\* q is what the completed build r left as its query
IsPlanOf(q, r) == ~Failed(r) /\ Unidentified(q) = Unidentified(r.b.query)

\* the builder's aliases and projection maps are those the completed build r left
MapsAreOf(r) ==
    /\ ~Failed(r)
    /\ AliasClasses(_tag_to_alias) = AliasClasses(r.b.tag_to_alias)
    /\ _projection_index_to_field = r.b.projection_index_to_field
    /\ _tag_to_projected_fields = r.b.tag_to_projected_fields

(* C1: every plan update_query returns for a spec S is the result of a      *)
(* completed successful build of S, and the aliases and projection maps the *)
(* builder holds are those of the spec whose hash it stores, also after a   *)
(* build that failed partway.                                               *)
C1_NoStalePlan ==
    /\ (last.op = "update_query" /\ last.ret.ok) => IsPlanOf(last.ret.v, CleanBuild(last.arg))
    /\ \A S \in workload : _hash = Some(make_hash(S)) => MapsAreOf(CleanBuild(S))

\* the stored hash is that of data and a query is resident (line 292)
CacheHit(data) == _hash = Some(make_hash(data))

\* the step is a call update_query(data)
Called(data) == last'.op = "update_query" /\ last'.arg = data

(* C2: update_query called with a spec whose hash equals the stored hash    *)
(* returns the very same plan object and rebuilds nothing: the alias table, *)
(* the projection index, the tag-to-projected-fields map and the stored     *)
(* hash are unchanged, however often the call is repeated.                  *)
C2_CacheHitChangesNothing ==
    [][\A data \in workload :
          (CacheHit(data) /\ Called(data)) =>
              /\ last'.ret = Ok(_query)
              /\ _query' = _query
              /\ _tag_to_alias' = _tag_to_alias
              /\ _projection_index_to_field' = _projection_index_to_field
              /\ _tag_to_projected_fields' = _tag_to_projected_fields
              /\ _hash' = _hash]_vars

\* a cache hit has happened: the call returned the resident plan without
\* making its spec the builder's data
C2_Witness ==
    /\ last.op = "update_query"
    /\ last.ret = Ok(_query)
    /\ CacheHit(last.arg)
    /\ _data # last.arg

\* S and T differ in limit only or in offset only
DiffersOnlyInPaging(S, T) ==
    S # T /\ ([S EXCEPT !.limit = T.limit] = T \/ [S EXCEPT !.offset = T.offset] = T)

(* C3: update_query called with a spec that differs from the cached one     *)
(* only in limit or only in offset rebuilds: a different plan object with   *)
(* the new paging is resident, the new hash is stored, and the projection   *)
(* index and the tag-to-projected-fields map are the same as before.        *)
C3_PagingRebuildKeepsMaps ==
    [][\A S, T \in workload :
          (CacheHit(S) /\ DiffersOnlyInPaging(S, T) /\ Called(T) /\ last'.ret.ok) =>
              /\ _query'.id # _query.id
              /\ last'.ret = Ok(_query')
              /\ _query'.limit = T.limit
              /\ _query'.offset = T.offset
              /\ _hash' = Some(make_hash(T))
              /\ _projection_index_to_field' = _projection_index_to_field
              /\ _tag_to_projected_fields' = _tag_to_projected_fields]_vars

------------------------------------------------------------------------------
(* The projection index (claim C4), checked under SpecProject.               *)

\* a node and the node it has a link from, both under the tag n
SameTagTwice ==
    QuerySpec(<<Vertex("n", "node"), Joined("n", "node", "with_incoming", "n", Some("e"))>>,
              << <<"n", << >> >>, <<"e", << >> >> >>,
              << <<"n", <<Item(<<"id">>)>> >>, <<"e", << >> >> >>,
              << >>)

\* a node, the node it has a link from, and the label of the link
NodeLinkNode ==
    QuerySpec(<<Vertex("n", "node"), Joined("m", "node", "with_incoming", "n", Some("e"))>>,
              << <<"n", << >> >>, <<"m", << >> >>, <<"e", << >> >> >>,
              << <<"n", <<Item(<<"id">>)>> >>, <<"m", <<Item(<<"id">>)>> >>,
                 <<"e", <<Item(<<"label">>)>> >> >>,
              << >>)

WorkloadProject ==
    {OneNode, TwoOk, NodeLinkNode, SameTagTwice, Duplicate,
     NodeComputer(<< >>, <<Item(<<"id">>)>>, <<Item(<<"**">>), Item(<<"id">>)>>, << >>),
     NodeComputer(<< >>, << >>, <<Item(<<"metadata">>), Item(<<"**">>)>>, << >>)}

InitProject == InitBuilder /\ workload = WorkloadProject /\ probe = None

\* the builder driven through update_query, on specs with projections
SpecProject == InitProject /\ [][UpdateQuery]_vars

\* the entity kind behind a tag of S: that of the last vertex of the tag, or
\* that of the edge the join of the vertex binds
TagClass(S, t) ==
    IF \E i \in DOMAIN S.path : S.path[i].tag = t
    THEN S.path[LastOf(S.path, t)].orm_base
    ELSE LET v == S.path[CHOOSE i \in DOMAIN S.path : S.path[i].edge_tag = Some(t)]
         IN EdgeClass(JoinStrategy(v.orm_base, v.joining_keyword[1])[1])[1]

\* the tags S asks projections for, one per request: the vertex tags in path
\* order, then the edge tags in path order
RequestedTags(S) ==
    [i \in DOMAIN S.path |-> S.path[i].tag]
    \o [i \in 1 .. Len(S.path) - 1 |-> S.path[i + 1].edge_tag[1]]

\* the field keys the projection items ask for, a ** counting once per column
RECURSIVE KeysOf(_, _)
KeysOf(alias, items) ==
    IF items = << >> THEN << >>
    ELSE PropertyNames(alias, Head(items).field).v \o KeysOf(alias, Tail(items))

\* the field keys S asks for under tag t
TagKeys(S, t) ==
    IF DictGet(S.project, t, << >>) = << >> THEN << >>
    ELSE KeysOf([cls |-> TagClass(S, t), tag |-> t], DictGet(S.project, t, << >>))

RECURSIVE SumLen(_, _)
SumLen(S, tags) == IF tags = << >> THEN 0 ELSE Len(TagKeys(S, Head(tags))) + SumLen(S, Tail(tags))

\* the logical projections of S outnumber its distinct (tag, field key) slots
Outnumbered(S) ==
    SumLen(S, RequestedTags(S))
        > Cardinality(UNION {{<<t, k>> : k \in Range(TagKeys(S, t))} : t \in Range(RequestedTags(S))})

DuplicateError ==
    Raise("ValueError", "You are projecting the same key multiple times within the same node",
          << >>)

\* what C4 says of the build r of spec S
IndexCounts(S, r) ==
    /\ ~Failed(r) => Cardinality(DOMAIN r.b.projection_index_to_field) = r.projection_count
    /\ Outnumbered(S) => r.err = Some(DuplicateError)

(* C4: a build that succeeds leaves a projection index with exactly         *)
(* projection_count entries, and a build whose logical projections          *)
(* outnumber the distinct index slots (a field key twice under one tag,     *)
(* also through ** and an explicit column, or one tag projected twice)      *)
(* raises instead of giving a plan; this for a build started in any state   *)
(* of the builder, and for the update_query calls that happened.            *)
C4_IndexMatchesCount ==
    /\ \A S \in workload : IndexCounts(S, _build([B EXCEPT !.data = S], NewId, FALSE))
    /\ (last.op = "update_query" /\ last.ret.ok) =>
           (~Outnumbered(last.arg) /\ _projection_index_to_field # << >>)

\* a build with a duplicate projection was rejected by a builder that holds
\* the plan of an earlier successful build
C4_Witness ==
    /\ last.op = "update_query"
    /\ Outnumbered(last.arg)
    /\ last.ret = DuplicateError
    /\ _hash # None

------------------------------------------------------------------------------
(* Every operation of the builder, on specs that build and one that does not *)

WorkloadExec == {OneNode, TwoOk}

Init == InitBuilder /\ workload = WorkloadExec /\ probe = None

Next == UpdateQuery \/ Count \/ First \/ YieldPer \/ GenStart \/ GenNext

Spec == Init /\ [][Next]_vars

\* the error the session raises when the build asks it for the query
SessionError == Raise("OperationalError", "session", << >>)

\* the operation ended with an error the execution collaborator raised
CollaboratorRaised == last.ret \in {ExecError, SessionError}

(* C5: whenever the execution collaborator raises in update_query, count,   *)
(* first, yield_per, iterall or iterdict, the caller gets that error and     *)
(* the session is closed by then, on every exit path, a failure during the   *)
(* build and one in the middle of the rows included.                         *)
C5_ClosedOnCollaboratorError == CollaboratorRaised => session = "idle"

------------------------------------------------------------------------------
(* Specs that name tags the path does not have                               *)

With(S, filters, project, order_by) ==
    [S EXCEPT !.filters = @ \o filters, !.project = @ \o project, !.order_by = @ \o order_by]

\* an empty filter for a tag that is no vertex and no edge
EmptyFilterUnknown == With(OneNode, << <<"zz", << >> >> >>, << >>, << >>)

\* a projection for a tag that is no vertex and no edge
ProjectUnknown == With(OneNode, << >>, << <<"zz", <<Item(<<"id">>)>> >> >>, << >>)

\* a filter for such a tag
FilterUnknown == With(OneNode, << <<"zz", Leaf(<<"id">>, <<"==">>, Val("int", 1))>> >>, << >>, << >>)

\* an order for such a tag
OrderUnknown ==
    With(OneNode, << >>, << >>,
         << <<"zz", << [field |-> <<"id">>, order |-> Some("asc"), cast |-> None] >> >> >>)

\* a filter on the edge tag of a join that binds no edge
FilterUnboundEdge ==
    QuerySpec(<<Vertex("n", "node"), Joined("c", "computer", "with_node", "n", Some("e"))>>,
              << <<"n", << >> >>, <<"c", << >> >>,
                 <<"e", Leaf(<<"label">>, <<"==">>, StrVal("x"))>> >>,
              << <<"n", <<Item(<<"id">>)>> >>, <<"c", << >> >>, <<"e", << >> >> >>,
              << >>)

WorkloadTags ==
    {OneNode, NodeLinkNode, EmptyFilterUnknown, ProjectUnknown, FilterUnknown, OrderUnknown,
     FilterUnboundEdge}

InitTags == InitBuilder /\ workload = WorkloadTags /\ probe = None

\* the builder driven through update_query, on specs with unknown tags
SpecTags == InitTags /\ [][UpdateQuery]_vars

\* the tags S refers to in filters, project and order_by
ReferencedTags(S) ==
    {S.filters[i][1] : i \in DOMAIN S.filters} \cup {S.project[i][1] : i \in DOMAIN S.project}
    \cup {S.order_by[i][1] : i \in DOMAIN S.order_by}

\* the vertex tags of S and the edge tags its joins bind
BoundTags(S) ==
    {S.path[i].tag : i \in DOMAIN S.path}
    \cup {S.path[i].edge_tag[1] :
            i \in {j \in 2 .. Len(S.path) :
                     /\ S.path[j].edge_tag # None
                     /\ JoinStrategy(S.path[j].orm_base, S.path[j].joining_keyword[1]) # None
                     /\ EdgeClass(JoinStrategy(S.path[j].orm_base,
                                               S.path[j].joining_keyword[1])[1]) # None}}

(* C6: a build raises whenever filters, project or order_by name a tag that *)
(* is no vertex tag of the path and no edge tag bound by a join: an          *)
(* update_query that gives a plan was given a spec all of whose tags are     *)
(* bound, an empty filter and a projection entry included.                   *)
C6_UnknownTagFails ==
    (last.op = "update_query" /\ last.ret.ok) => ReferencedTags(last.arg) \subseteq BoundTags(last.arg)

------------------------------------------------------------------------------
(* Specs without any projection item, of one, two and three vertices         *)

\* one node, nothing said about projections at all
BareNode == QuerySpec(<<Vertex("n", "node")>>, << <<"n", << >> >> >>, << >>, << >>)

\* a node and its computer, every tag with an empty projection list
BareNodeComputer == NodeComputer(<< >>, << >>, << >>, << >>)

\* a node, a node it links to, and the computer of that one
BareChain ==
    QuerySpec(<<Vertex("n", "node"), Joined("m", "node", "with_incoming", "n", Some("e")),
                Joined("c", "computer", "with_node", "m", Some("f"))>>,
              << <<"n", Leaf(<<"id">>, <<"==">>, Val("int", 1))>>, <<"m", << >> >>,
                 <<"c", << >> >>, <<"e", << >> >>, <<"f", << >> >> >>,
              << <<"n", << >> >>, <<"m", << >> >>, <<"c", << >> >>, <<"e", << >> >>,
                 <<"f", << >> >> >>,
              << >>)

WorkloadDefault == {BareNode, BareNodeComputer, BareChain}

InitDefault == InitBuilder /\ workload = WorkloadDefault /\ probe = None

\* update_query and first on specs without projections
SpecDefault == InitDefault /\ [][UpdateQuery \/ First]_vars

NoProjection(S) == \A i \in DOMAIN S.project : S.project[i][2] = << >>

LastVertex(S) == S.path[Len(S.path)]

\* the whole entity of the last vertex of S
LastEntity(S) == [k |-> "entity", cls |-> LastVertex(S).orm_base, tag |-> LastVertex(S).tag]

\* what C7 says of the build r of a spec S without projections
DefaultProjection(S, r) ==
    /\ ~Failed(r)
    /\ r.projection_count = 1
    /\ r.b.query.entities = <<LastEntity(S)>>
    /\ DOMAIN r.b.tag_to_projected_fields = {LastVertex(S).tag}
    /\ DOMAIN r.b.tag_to_projected_fields[LastVertex(S).tag] = {<<"*">>}
    /\ r.b.tag_to_projected_fields[LastVertex(S).tag][<<"*">>] = 0
    /\ DOMAIN r.b.projection_index_to_field = {0}

(* C7: a spec none of whose tags has a projection item builds to one slot:  *)
(* the whole entity of the last path vertex, at position 0 under that        *)
(* vertex's tag; first() on such a spec gives None when there is no row and  *)
(* else a list of one element, that entity, for paths of every length.       *)
C7_DefaultProjectsLastVertex ==
    /\ \A S \in workload :
           NoProjection(S) => DefaultProjection(S, _build([B EXCEPT !.data = S], NewId, FALSE))
    /\ (last.op = "first" /\ last.ret.ok /\ NoProjection(last.arg)) =>
           \/ last.ret.v = None
           \/ last.ret.v = Some(<<[row |-> 1, of |-> LastEntity(last.arg), backend |-> TRUE]>>)

\* first() gave the row of a spec of three vertices without projections
C7_Witness ==
    /\ last.op = "first"
    /\ last.arg = BareChain
    /\ last.ret.ok
    /\ last.ret.v # None

------------------------------------------------------------------------------
(* Leaf filters on a semi-structured attribute, each compiled and then       *)
(* evaluated on one stored value                                             *)

\* the alias the filters are compiled for
ProbeAlias == [cls |-> "node", tag |-> "n", bid |-> 1]

\* a probe before it is compiled
Probe(filter, row) == [alias |-> ProbeAlias, filter |-> filter, row |-> row, out |-> None, val |-> None]

\* a row whose attribute holds a value of JSON type jt (or no value: "missing")
JsonRow(jt) ==
    [col |-> [jt |-> "number", n |-> 1, s |-> ""], json |-> [jt |-> jt, n |-> 1, s |-> "a"]]

JsonRows == {JsonRow(jt) : jt \in valid_types \cup {"missing"}}

ScalarValues ==
    {Val("bool", 1), Val("int", 1), Val("float", 1), StrVal("a"), Val("dict", 0), Val("NoneType", 0)}

ComparisonOperators == {<<"==">>, <<">">>, <<"<">>, <<">=">>, <<"<=">>, <<"like">>, <<"ilike">>}

LengthOperators == {<<"of_length">>, <<"longer">>, <<"shorter">>}

\* operator and value of the leaf filters
JsonbLeaves ==
    (ComparisonOperators \X ScalarValues)
    \cup ({<<"in">>} \X {ListVal(<<v, v>>) : v \in ScalarValues})
    \cup (LengthOperators \X {Val("int", 1)})

InitJsonb ==
    /\ InitBuilder
    /\ workload = {}
    /\ probe \in {Probe(Leaf(<<"attributes", "x">>, l[1], l[2]), row) :
                    l \in JsonbLeaves, row \in JsonRows}

\* a leaf filter compiled, then evaluated
SpecJsonb == InitJsonb /\ [][Compile \/ Evaluate]_vars

\* the operator and the value of the leaf filter of the probe
ProbeOperator == probe.filter[1][2].items[1][1]

ProbeValue == probe.filter[1][2].items[1][2]

\* the JSON type tag a filter value stands for
TagOfValue(value) ==
    CASE value.ty = "bool" -> "boolean"
      [] value.ty \in {"int", "float"} -> "number"
      [] value.ty = "str" -> "string"
      [] value.ty \in {"dict", "NoneType"} -> "object"

\* the tag the stored value must have for the comparison of the probe
ExpectedTag ==
    IF ProbeOperator \in LengthOperators THEN "array"
    ELSE IF ProbeOperator = <<"in">> THEN TagOfValue(ProbeValue.items[1])
    ELSE TagOfValue(ProbeValue)

\* the probe was evaluated on a stored value of another type than expected
Mismatch ==
    /\ probe # None
    /\ probe.val # None
    /\ probe.row.json.jt # ExpectedTag

------------------------------------------------------------------------------
(* Negated combinators over two flat leaf filters, each compiled and then    *)
(* evaluated on one row                                                      *)

\* a row whose id is n and whose attribute holds a value of JSON type jt
Row(n, jt) ==
    [col |-> [jt |-> "number", n |-> n, s |-> ""], json |-> [jt |-> jt, n |-> 1, s |-> "a"]]

CombinatorRows == {Row(n, jt) : n \in {1, 2}, jt \in {"number", "string", "missing"}}

\* flat leaf specs on a column and on a semi-structured attribute
FlatLeaves ==
    {Leaf(<<"id">>, <<"==">>, Val("int", 1)),
     Leaf(<<"id">>, <<">">>, Val("int", 1)),
     Leaf(<<"attributes", "x">>, <<"==">>, Val("int", 1)),
     Leaf(<<"attributes", "x">>, <<"like">>, StrVal("a"))}

NegatedAnd == {<<"!and">>, <<"~and">>}

NegatedOr == {<<"!or">>, <<"~or">>}

\* the spellings that are no combinator of build_filters
Unrecognised == {<<"not-and">>, <<"not-or">>}

\* {token: [A, B]}
Combined(token, first_leaf, second_leaf) == << <<token, ListVal(<<first_leaf, second_leaf>>)>> >>

InitCombinators ==
    /\ InitBuilder
    /\ workload = {}
    /\ probe \in {Probe(Combined(token, l[1], l[2]), row) :
                    token \in NegatedAnd \cup NegatedOr \cup Unrecognised,
                    l \in FlatLeaves \X FlatLeaves, row \in CombinatorRows}

\* a negated combinator compiled, then evaluated
SpecCombinators == InitCombinators /\ [][Compile \/ Evaluate]_vars

\* the token and the two leaf specs of the probe
ProbeToken == probe.filter[1][1]

ProbeLeaf(i) == probe.filter[1][2].items[i]

\* the value of leaf i of the probe, compiled on its own, on the row of the probe
LeafValue(i) == Eval(build_filters(probe.alias, ProbeLeaf(i)).v, probe.row)

\* NOT(A AND B) and NOT(A OR B) on the row of the probe
NotAnd == Not3(And3(LeafValue(1), LeafValue(2)))

NotOr == Not3(Or3(LeafValue(1), LeafValue(2)))

\* the probe compiled, and evaluated to val whenever it was evaluated
CompiledTo(val) == probe.out[1].ok /\ (probe.val # None => probe.val = Some(val))

------------------------------------------------------------------------------
(* Specs with one in-filter on the node: on a column and on an attribute,    *)
(* plain, negated, and inside an and- or or-list of the field                *)

IntList == ListVal(<<Val("int", 1), Val("int", 2), Val("int", 3)>>)

EmptyList == ListVal(<< >>)

MixedList == ListVal(<<Val("int", 1), StrVal("a")>>)

\* one type, but lists: [[1], [2]]
ListList == ListVal(<<ListVal(<<Val("int", 1)>>), ListVal(<<Val("int", 2)>>)>>)

\* {field: {operator: value}}
InLeaf(field, operator, value) == Leaf(field, operator, value)

\* {field: {combinator: [{'in': value}, {'==': 1}]}}
InListed(field, combinator, value) ==
    Leaf(field, combinator,
         ListVal(<< << <<(<<"in">>), value>> >>, << <<(<<"==">>), Val("int", 1)>> >> >>))

InFilters ==
    {InLeaf(<<"id">>, <<"in">>, IntList),
     InLeaf(<<"id">>, <<"in">>, EmptyList),
     InLeaf(<<"id">>, <<"in">>, ListList),
     InLeaf(<<"id">>, <<"!", "in">>, MixedList),
     InLeaf(<<"attributes", "x">>, <<"in">>, ListList),
     InLeaf(<<"attributes", "x">>, <<"~", "in">>, IntList),
     InLeaf(<<"attributes", "x">>, <<"~", "in">>, MixedList),
     InListed(<<"id">>, <<"and">>, MixedList),
     InListed(<<"attributes", "x">>, <<"or">>, IntList),
     InListed(<<"attributes", "x">>, <<"and">>, EmptyList)}

\* one node, its id projected, filtered by the filter
Filtered(filter) ==
    QuerySpec(<<Vertex("n", "node")>>, << <<"n", filter>> >>, << <<"n", <<Item(<<"id">>)>> >> >>,
              << >>)

WorkloadIn == {Filtered(filter) : filter \in InFilters}

InitIn == InitBuilder /\ workload = WorkloadIn /\ probe = None

\* update_query and count on specs with an in-filter
SpecIn == InitIn /\ [][UpdateQuery \/ Count]_vars

\* the field of the filter of S and the operator and value under it
InField(S) == S.filters[1][2][1][1]

OuterOperator(S) == S.filters[1][2][1][2].items[1][1]

OuterValue(S) == S.filters[1][2][1][2].items[1][2]

\* the value of the in operator of S
InValue(S) ==
    IF OuterOperator(S) \in {<<"and">>, <<"or">>} THEN OuterValue(S).items[1][1][2]
    ELSE OuterValue(S)

ElementTypes(value) == {value.items[i].ty : i \in DOMAIN value.items}

IsEmpty(value) == value.items = << >>

IsMixed(value) == Cardinality(ElementTypes(value)) > 1

IsHomogeneous(value) == Cardinality(ElementTypes(value)) = 1

\* the element types a semi-structured comparison knows
JsonbTypes == {"bool", "int", "float", "str", "dict", "NoneType"}

\* the in operator of S is given a list of one element type that its context
\* can compare
Comparable(S) ==
    /\ IsHomogeneous(InValue(S))
    /\ Len(InField(S)) > 1 => ElementTypes(InValue(S)) \subseteq JsonbTypes

\* the operation on the spec of last ran without a raise of the collaborator
Ran == last.op \in {"update_query", "count"} /\ ~CollaboratorRaised

\* the operation raised the error of the class in the build and made no call
\* to the collaborator
FailedInBuild(cls) == ~last.ret.ok /\ last.ret.cls = cls /\ last.calls = << >>

(* C10 as stated: a leaf in compiles when its value is a non-empty list of  *)
(* one element type, and fails during build, before any call to the          *)
(* collaborator, when the list is empty or mixes types; the mixed-type       *)
(* failure is a type error; in scalar and semi-structured context, under a   *)
(* negation prefix and inside a leaf and/or list.                            *)
C10_MixedIsTypeError ==
    Ran => /\ IsHomogeneous(InValue(last.arg)) => last.ret.ok
           /\ IsEmpty(InValue(last.arg)) => (~last.ret.ok /\ last.calls = << >>)
           /\ IsMixed(InValue(last.arg)) => FailedInBuild("TypeError")

(* C10, amended: a leaf in compiles when its value is a non-empty list of   *)
(* one element type (in semi-structured context one of bool, int, float,     *)
(* str, dict, None; a list of one other type, such as a list of lists,       *)
(* fails there during build with a TypeError), and fails during build with   *)
(* a ValueError, before any call to the collaborator, when the list is       *)
(* empty or mixes element types; in scalar and semi-structured context,      *)
(* under a negation prefix and inside a leaf and/or list.                    *)
C10_InNeedsOneType ==
    /\ \A S \in workload :
           Comparable(S) => ~Failed(_build([B EXCEPT !.data = S], NewId, FALSE))
    /\ Ran => /\ Comparable(last.arg) => last.ret.ok
              /\ (IsEmpty(InValue(last.arg)) \/ IsMixed(InValue(last.arg))) =>
                     FailedInBuild("ValueError")
              /\ (IsHomogeneous(InValue(last.arg)) /\ ~Comparable(last.arg)) =>
                     FailedInBuild("TypeError")

\* count on a negated in with a mixed list on an attribute raised in the
\* build, after a count that reached the collaborator
C10_Witness ==
    /\ last.op = "count"
    /\ IsMixed(InValue(last.arg))
    /\ OuterOperator(last.arg) = <<"~", "in">>
    /\ Len(InField(last.arg)) > 1
    /\ FailedInBuild("ValueError")
    /\ session = "open"

------------------------------------------------------------------------------
(* Specs that project or order by an attribute path or a column, with and    *)
(* without a cast                                                            *)

CastItem(field, cast_) == [field |-> field, cast |-> cast_, func |-> None]

OrderItem(field, cast_) == [field |-> field, order |-> Some("asc"), cast |-> cast_]

\* one node with one projection item
Projecting(item) ==
    QuerySpec(<<Vertex("n", "node")>>, << <<"n", << >> >> >>, << <<"n", <<item>> >> >>, << >>)

\* one node, its id projected, ordered by one item
Ordering(item) ==
    QuerySpec(<<Vertex("n", "node")>>, << <<"n", << >> >> >>,
              << <<"n", <<Item(<<"id">>)>> >> >>, << <<"n", <<item>> >> >>)

CastFields == {<<"attributes", "temperature">>, <<"id">>}

Casts == {None, Some("f"), Some("t")}

WorkloadCast ==
    {Projecting(CastItem(f, c)) : f \in CastFields, c \in Casts}
    \cup {Ordering(OrderItem(f, c)) : f \in CastFields, c \in Casts}

InitCast == InitBuilder /\ workload = WorkloadCast /\ probe = None

\* the builder driven through update_query, on specs with casts
SpecCast == InitCast /\ [][UpdateQuery]_vars

\* the item under test of S: its order_by item, else its projection item
IsOrdering(S) == S.order_by # << >>

CastItemOf(S) == IF IsOrdering(S) THEN S.order_by[1][2][1] ELSE S.project[1][2][1]

HasAttrPath(item) == Len(item.field) > 1

\* what the item resolves to on the node: a column, or the JSON value under
\* the path, as text cast to the type of the cast key
NodeColumn(name) == [k |-> "column", cls |-> "node", tag |-> "n", name |-> name]

JsonValue(field) == [k |-> "json", col |-> NodeColumn(Head(field)), path |-> Tail(field)]

Resolved(item) ==
    IF ~HasAttrPath(item) THEN NodeColumn(Head(item.field))
    ELSE IF item.cast = None THEN JsonValue(item.field)
    ELSE IF item.cast = Some("f") THEN cast(astext(JsonValue(item.field)), "Float")
    ELSE astext(JsonValue(item.field))

\* the entity the build r resolved the item of S to
ResolvedBy(S, r) ==
    IF IsOrdering(S) THEN r.b.query.order_by = <<Resolved(CastItemOf(S))>>
    ELSE r.b.query.entities = <<Resolved(CastItemOf(S))>>

AmbiguousCast(S) ==
    Raise("ValueError", "To order_by, the value has to be cast", CastItemOf(S).field)

\* the build r of S under the claim as stated and as amended
CastRule(S, r, projecting_fails) ==
    IF HasAttrPath(CastItemOf(S)) /\ CastItemOf(S).cast = None /\ (IsOrdering(S) \/ projecting_fails)
    THEN Failed(r)
    ELSE ~Failed(r) /\ ResolvedBy(S, r)

(* C11 as stated: a spec that resolves a nested attribute path without a    *)
(* cast fails to build, for a projection item as for an order_by item; with  *)
(* a cast it builds and the resolved value carries the cast type; for a      *)
(* plain column the cast is ignored.                                         *)
C11_NoCastFails ==
    (last.op = "update_query" /\ ~CollaboratorRaised) =>
        /\ CastRule(last.arg, _build([NewBuilder EXCEPT !.data = last.arg], 0, FALSE), TRUE)
        /\ (HasAttrPath(CastItemOf(last.arg)) /\ CastItemOf(last.arg).cast = None) => ~last.ret.ok

(* C11, amended: an order_by item on a nested attribute path without a cast *)
(* fails the build with the ambiguous-cast error; a projection item on such  *)
(* a path without a cast builds and resolves to the uncast JSON value; with  *)
(* a cast either builds and the resolved value carries the cast type; for a  *)
(* plain column the cast is ignored.                                         *)
C11_OrderNeedsCast ==
    /\ \A S \in workload : CastRule(S, _build([B EXCEPT !.data = S], NewId, FALSE), FALSE)
    /\ (last.op = "update_query" /\ IsOrdering(last.arg) /\ HasAttrPath(CastItemOf(last.arg))
        /\ CastItemOf(last.arg).cast = None /\ ~CollaboratorRaised)
           => last.ret = AmbiguousCast(last.arg)

\* an order_by on an attribute path without a cast was rejected by a builder
\* that holds the plan of a projection of that path without a cast
C11_Witness ==
    /\ last.op = "update_query"
    /\ last.ret = AmbiguousCast(last.arg)
    /\ _hash = Some(make_hash(Projecting(CastItem(<<"attributes", "temperature">>, None))))

------------------------------------------------------------------------------
(* Rows decoded by first, iterall and iterdict: one whole-entity slot, one   *)
(* column slot, several slots, and a spec whose build raises after its       *)
(* projections                                                               *)

\* one node, projected as a whole
StarNode ==
    QuerySpec(<<Vertex("n", "node")>>, << <<"n", << >> >> >>,
              << <<"n", <<Item(<<"*">>)>> >> >>, << >>)

WorkloadDecode == {StarNode, TwoOk, BadOrder}

InitDecode == InitBuilder /\ workload = WorkloadDecode /\ probe = None

\* first, and the generators of iterall and iterdict
SpecDecode == InitDecode /\ [][First \/ GenStart \/ GenNext]_vars

\* first or iterall gave its caller a list for a row
GaveList ==
    /\ last.op \in {"first", "iterall"}
    /\ last.ret.ok
    /\ last.ret.v # None

TheList == IF last.op = "first" THEN last.ret.v[1] ELSE last.ret.v

\* the row the list was decoded from
TheRow == IF last.op = "first" THEN 1 ELSE gen.i

\* the projection index the operation read
TheIndex == IF last.op = "first" THEN _projection_index_to_field ELSE gen.tag_to_index_dict

\* the entities a build of S projects, in projection order
Projected(S) == CleanBuild(S).b.query.entities

(* C12: every list that iterall yields and first returns has as many        *)
(* elements as the projection index has slots, in projection order, each     *)
(* the converted row value of its slot, for one whole-entity slot, one       *)
(* column slot and several slots; an empty index is an error, never an       *)
(* empty list.                                                               *)
C12_ListMatchesIndex ==
    GaveList =>
        /\ TheIndex # << >>
        /\ Len(TheList) = Cardinality(DOMAIN TheIndex)
        /\ TheList = [j \in DOMAIN Projected(last.arg) |->
                         [row |-> TheRow, of |-> Projected(last.arg)[j],
                          backend |-> Projected(last.arg)[j].k = "entity"]]


\* the name a projected field is exposed under: _metadata of a computer or a
\* log is metadata, every other name is itself
ExternalName(table, field) ==
    IF table \in {"db_dbcomputer", "db_dblog"} /\ field = <<"_metadata">> THEN <<"metadata">>
    ELSE field

\* tag -> field -> position of a build of S
FieldsOf(S) == CleanBuild(S).b.tag_to_projected_fields

\* the value of row i at the position recorded for the field of tag t of S
\* that is exposed under name
ValueUnder(S, t, name, i) ==
    LET g == CHOOSE g \in DOMAIN FieldsOf(S)[t] :
                 ExternalName(TableName(TagClass(S, t)), g) = name
        e == Projected(S)[FieldsOf(S)[t][g] + 1]
    IN [row |-> i, of |-> e, backend |-> e.k = "entity"]

\* the mapping of row i of S: tag -> external field name -> value
MappingOf(S, i) ==
    [t \in DOMAIN FieldsOf(S) |->
        [name \in {ExternalName(TableName(TagClass(S, t)), g) : g \in DOMAIN FieldsOf(S)[t]} |->
            ValueUnder(S, t, name, i)]]

(* C13: for every row iterdict yields a mapping whose keys are the tags     *)
(* with projected fields and, under each tag, its projected fields under     *)
(* their external names (_metadata as metadata), each entry the row value    *)
(* at the position recorded for the field, the value iterall yields there.   *)
C13_DictMatchesFields ==
    (last.op = "iterdict" /\ last.ret.ok) => last.ret.v = MappingOf(last.arg, gen.i)

------------------------------------------------------------------------------
(* Paths whose joins are registered for the entity kind, and paths with a    *)
(* join that is not                                                          *)

\* a path with every tag given an empty filter and the last vertex projected
PathSpec(path) ==
    QuerySpec(path,
              [i \in DOMAIN RequestedTags([path |-> path]) |->
                  <<RequestedTags([path |-> path])[i], << >> >>],
              [i \in DOMAIN RequestedTags([path |-> path]) |->
                  <<RequestedTags([path |-> path])[i],
                    IF i = Len(path) THEN <<Item(<<"id">>)>> ELSE << >> >>],
              << >>)

\* with_incoming is no join of a computer
ComputerIncoming ==
    PathSpec(<<Vertex("n", "node"), Joined("c", "computer", "with_incoming", "n", Some("e"))>>)

\* with_foo is no join at all
NodeFoo == PathSpec(<<Vertex("n", "node"), Joined("m", "node", "with_foo", "n", Some("e"))>>)

\* the second join is registered, the third is not
ThirdUnregistered ==
    PathSpec(<<Vertex("n", "node"), Joined("m", "node", "with_incoming", "n", Some("e")),
               Joined("c", "computer", "with_computer", "m", Some("f"))>>)

\* every join registered
NodeNodeComputer ==
    PathSpec(<<Vertex("n", "node"), Joined("m", "node", "with_ancestors", "n", Some("e")),
               Joined("c", "computer", "with_node", "m", Some("f"))>>)

WorkloadJoin == {TwoOk, NodeNodeComputer, ComputerIncoming, NodeFoo, ThirdUnregistered}

InitJoin == InitBuilder /\ workload = WorkloadJoin /\ probe = None

\* the builder driven through update_query, on paths with joins
SpecJoin == InitJoin /\ [][UpdateQuery]_vars

\* the pairs (entity kind, joining keyword) of the dispatch table
Registered ==
    {<<"node", "with_incoming">>, <<"node", "with_ancestors">>, <<"node", "with_computer">>,
     <<"computer", "with_node">>}

IsUnregistered(S, i) == <<S.path[i].orm_base, S.path[i].joining_keyword[1]>> \notin Registered

UnregisteredAt(S) == {i \in 2 .. Len(S.path) : IsUnregistered(S, i)}

\* the first vertex of S whose join is not registered
FirstUnregistered(S) == Min(UnregisteredAt(S))

\* the error for the vertex: it names the keyword and the entity kind
InvalidJoinKeyword(S, i) ==
    Raise("ValueError", "is not a valid joining keyword for a type entity",
          <<S.path[i].joining_keyword[1], S.path[i].orm_base>>)

\* what C14 says of the build r of S
JoinRule(S, r) ==
    IF UnregisteredAt(S) = {}
    THEN ~Failed(r) /\ Len(r.b.query.joins) = Len(S.path) - 1
    ELSE /\ r.err = Some(InvalidJoinKeyword(S, FirstUnregistered(S)))
         /\ Len(r.b.query.joins) = FirstUnregistered(S) - 2

(* C14: the join of each vertex after the first is looked up by (entity     *)
(* kind, joining keyword); when the pair is not registered the build raises  *)
(* an error naming the keyword and the entity kind, the query has no join    *)
(* for that vertex, and the hash of the failed spec is not the cached hash.  *)
C14_UnregisteredJoinFails ==
    /\ \A S \in workload :
           /\ JoinRule(S, _build([B EXCEPT !.data = S], NewId, FALSE))
           /\ UnregisteredAt(S) # {} => _hash # Some(make_hash(S))
    /\ (last.op = "update_query" /\ UnregisteredAt(last.arg) # {} /\ ~CollaboratorRaised) =>
           last.ret = InvalidJoinKeyword(last.arg, FirstUnregistered(last.arg))

\* the third join of a path was rejected after the second was applied, by a
\* builder that keeps the hash of an earlier spec
C14_Witness ==
    /\ last.op = "update_query"
    /\ last.arg = ThirdUnregistered
    /\ last.ret = InvalidJoinKeyword(ThirdUnregistered, 3)
    /\ Len(_query.joins) = 1
    /\ _hash = Some(make_hash(TwoOk))

------------------------------------------------------------------------------
(* A spec whose projections give no projectable field                        *)

\* the only projection items are those of a tag the path does not have
NothingProjected ==
    QuerySpec(<<Vertex("n", "node")>>, << <<"n", << >> >> >>,
              << <<"n", << >> >>, <<"zz", <<Item(<<"id">>)>> >> >>, << >>)

WorkloadEmpty == {OneNode, NothingProjected}

InitEmpty == InitBuilder /\ workload = WorkloadEmpty /\ probe = None

\* every operation that builds
SpecEmpty == InitEmpty /\ [][UpdateQuery \/ Count \/ First \/ GenStart \/ GenNext]_vars

\* S has projection items, none of them for a tag of its path
NoProjectableField(S) ==
    /\ \E i \in DOMAIN S.project : S.project[i][2] # << >>
    /\ \A i \in DOMAIN S.project : S.project[i][2] # << >> => S.project[i][1] \notin BoundTags(S)

(* C15: a spec whose projections yield no projectable field is rejected by  *)
(* the build itself: update_query, count, first, iterall and iterdict fail   *)
(* for it before anything is executed, the error not being left to the       *)
(* decoding of rows.                                                         *)
C15_EmptyProjectionFailsBuild ==
    (last.op \in {"update_query", "count", "first", "iterall", "iterdict"}
     /\ NoProjectableField(last.arg))
        => (~last.ret.ok /\ last.calls = << >>)

------------------------------------------------------------------------------
(* Aggregates on projection items                                            *)

FuncItem(field, func) == [field |-> field, cast |-> None, func |-> func]

Aggregates == {"min", "max", "count", "avg"}

WorkloadAggregate ==
    {Projecting(FuncItem(<<"id">>, Some(f))) : f \in Aggregates}
        \cup {Projecting(FuncItem(<<"*">>, Some("max"))), Projecting(Item(<<"id">>))}

InitAggregate == InitBuilder /\ workload = WorkloadAggregate /\ probe = None

\* the builder driven through update_query, on specs with one aggregate
SpecAggregate == InitAggregate /\ [][UpdateQuery]_vars

\* the one projection item of S
AggregateItem(S) == S.project[1][2][1]

(* C16: a projection item with aggregate min wraps the resolved column in   *)
(* the minimum operation, max in the maximum operation, count in count, so  *)
(* that min and max on one column are different output columns; any other   *)
(* aggregate name fails the build, and so does an aggregate on '*'.         *)
C16_AggregateWrapsColumn ==
    (last.op = "update_query" /\ AggregateItem(last.arg).func # None) =>
        LET item == AggregateItem(last.arg)
        IN  IF Head(item.field) = "*" \/ item.func[1] \notin {"min", "max", "count"}
            THEN ~last.ret.ok /\ last.ret.cls = "ValueError"
            ELSE /\ last.ret.ok
                 /\ last.ret.v.entities =
                        <<sa_func(item.func[1], NodeColumn(Head(item.field)))>>

------------------------------------------------------------------------------
(* Leaf operators by name, on a column and on a semi-structured attribute:   *)
(* at the top level of the field, under a negation prefix, and inside a leaf *)
(* and/or list                                                               *)

ScalarOperators == {"==", ">", "<", ">=", "<=", "like", "ilike", "in"}

JsonbOperators ==
    ScalarOperators \cup {"contains", "has_key", "of_type", "of_length", "longer", "shorter"}

\* the supported names, two other spellings of >= and <=, and two names that
\* are no operator
OperatorNames == JsonbOperators \cup {"=>", "=<", "!=", "between"}

\* a value that passes the checks on the value of the operator
OperatorValue(name) ==
    CASE name \in {"like", "ilike", "has_key"} -> StrVal("a")
      [] name = "of_type" -> StrVal("number")
      [] name = "in" -> ListVal(<<Val("int", 1), Val("int", 2)>>)
      [] name = "contains" -> ListVal(<<Val("int", 1)>>)
      [] OTHER -> Val("int", 1)

Nestings == {"top", "negated", "in_and", "in_or"}

\* {field: {name: value}} at the nesting level
Nested(field, name, nesting) ==
    CASE nesting = "top" -> Leaf(field, <<name>>, OperatorValue(name))
      [] nesting = "negated" -> Leaf(field, <<"~", name>>, OperatorValue(name))
      [] nesting = "in_and" ->
            Leaf(field, <<"and">>, ListVal(<< << <<(<<name>>), OperatorValue(name)>> >> >>))
      [] nesting = "in_or" ->
            Leaf(field, <<"or">>, ListVal(<< << <<(<<name>>), OperatorValue(name)>> >> >>))

InitOperators ==
    /\ InitBuilder
    /\ workload = {}
    /\ probe \in {Probe(Nested(field, name, nesting), Row(1, "number")) :
                    field \in {<<"id">>, <<"attributes", "x">>},
                    name \in OperatorNames, nesting \in Nestings}

\* a leaf filter compiled, then evaluated
SpecOperators == InitOperators /\ [][Compile \/ Evaluate]_vars

\* the field of the probe is semi-structured
ProbeIsJsonb == Len(probe.filter[1][1]) > 1

\* the name of the operator of the probe, without prefix and and/or list
ProbeName ==
    IF ProbeOperator \in {<<"and">>, <<"or">>} THEN ProbeValue.items[1][1][1][1]
    ELSE ProbeOperator[Len(ProbeOperator)]

\* the error that names the operator and the context
UnknownOperator(name, is_jsonb) ==
    Raise("ValueError",
          IF is_jsonb THEN "Unknown operator for filters in JSON field"
          ELSE "Unknown operator for filters on columns",
          <<name>>)

(* C17: an operator outside the supported set of its context fails the      *)
(* build with an error naming the operator and the context, the scalar set  *)
(* being exactly ==, >, <, >=, <=, like, ilike, in and the semi-structured  *)
(* set exactly these and contains, has_key, of_type, of_length, longer,     *)
(* shorter; at the top level of a field, inside a leaf and/or list and      *)
(* under a negation prefix alike; no spelling is accepted in one context    *)
(* and rejected in the other for the same comparison.                       *)
C17_SupportedSetsExact ==
    (probe # None /\ probe.out # None) =>
        IF ProbeName \in (IF ProbeIsJsonb THEN JsonbOperators ELSE ScalarOperators)
        THEN probe.out[1].ok
        ELSE probe.out[1] = UnknownOperator(ProbeName, ProbeIsJsonb)

------------------------------------------------------------------------------
(* Comparisons on a semi-structured attribute with a filter value of every   *)
(* type, each compiled and then evaluated on one stored value                *)

FilterValues == ScalarValues \cup {ListVal(<<Val("int", 1)>>)}

TypedLeaves == {<<"==">>, <<"<">>, <<">=">>} \X FilterValues

InitTypeTag ==
    /\ InitBuilder
    /\ workload = {}
    /\ probe \in {Probe(Leaf(<<"attributes", "x">>, l[1], l[2]), row) :
                    l \in TypedLeaves, row \in JsonRows}

\* a comparison compiled, then evaluated
SpecTypeTag == InitTypeTag /\ [][Compile \/ Evaluate]_vars

\* the type tag the compiled comparison of the probe requires of the stored value
RequiredTag == probe.out[1].v.args[1].when.tag

(* C18: the type tag a semi-structured comparison requires of the stored    *)
(* value is a function of the filter value alone: boolean for bool, number  *)
(* for int and float, string for str, object for dict, null for None, array *)
(* for list; a None filter value matches a stored JSON null, and a list     *)
(* filter value compiles to an array comparison.                            *)
C18_TagOfFilterValue ==
    (probe # None /\ probe.out # None) =>
        /\ probe.out[1].ok
        /\ RequiredTag = JsonTypeOf(ProbeValue)
        /\ (/\ probe.val # None
            /\ ProbeOperator = <<"==">>
            /\ ProbeValue.ty = "NoneType"
            /\ probe.row.json.jt = "null") => probe.val = Some("T")

------------------------------------------------------------------------------
(* Leaf operators under one and under two negation prefixes, on a column and *)
(* on a semi-structured attribute, each compiled and then evaluated on one   *)
(* row                                                                       *)

Prefixes == {<<"~">>, <<"!">>, <<"~", "~">>, <<"!", "~">>, <<"~", "!">>, <<"!", "!">>}

\* [{'==': 1}, {'>': 1}]
LeafList == ListVal(<< << <<(<<"==">>), Val("int", 1)>> >>, << <<(<<">">>), Val("int", 1)>> >> >>)

\* operator and value of the leaves without prefix
PlainLeaves ==
    {<< <<"==">>, Val("int", 1)>>, << <<"<">>, Val("int", 2)>>,
     << <<"and">>, LeafList>>, << <<"or">>, LeafList>>}

InitNegation ==
    /\ InitBuilder
    /\ workload = {}
    /\ probe \in {Probe(Leaf(field, prefix \o l[1], l[2]), row) :
                    field \in {<<"id">>, <<"attributes", "x">>},
                    prefix \in Prefixes, l \in PlainLeaves, row \in CombinatorRows}

\* a prefixed leaf compiled, then evaluated
SpecNegation == InitNegation /\ [][Compile \/ Evaluate]_vars

\* the leaf of the probe with operator op in place of its own, compiled
CompiledFor(op) == build_filters(probe.alias, Leaf(probe.filter[1][1], op, ProbeValue))

\* the probe compiles when e does, to a predicate that has on the row of the
\* probe the value of e, or of NOT e
CompilesLike(e, negated) ==
    /\ probe.out[1].ok = e.ok
    /\ probe.val # None =>
          probe.val = Some(IF negated THEN Not3(Eval(e.v, probe.row)) ELSE Eval(e.v, probe.row))

(* C19: for a leaf operator op, the predicate compiled for '~'+op or '!'+op *)
(* is the negation of the predicate compiled for op, one prefix character   *)
(* consumed per negation: '~~==' and '!~==' compile to the same predicate   *)
(* as '==', and a prefixed leaf and/or negates the combined list.           *)
C19_PrefixNegates ==
    (probe # None /\ probe.out # None) =>
        /\ CompilesLike(CompiledFor(Tail(ProbeOperator)), TRUE)
        /\ ProbeOperator \in {<<"~", "~", "==">>, <<"!", "~", "==">>}
              => CompilesLike(CompiledFor(<<"==">>), FALSE)

------------------------------------------------------------------------------
(* Filter specs with several top-level keys, several operators under one     *)
(* field path, a literal under a field path, and no entry at all             *)

\* {'id': {'>=': 1, '<': 2}, 'attributes.x': {'==': 1}}
TwoKeys ==
    << <<(<<"id">>), OpsVal(<< <<(<<">=">>), Val("int", 1)>>, <<(<<"<">>), Val("int", 2)>> >>)>>,
       <<(<<"attributes", "x">>), OpsVal(<< <<(<<"==">>), Val("int", 1)>> >>)>> >>

\* {'id': 1}
Literal == << <<(<<"id">>), Val("int", 1)>> >>

\* {'attributes.x': 1, 'or': [{'id': 1}, {'id': {'>': 2}}]}
LiteralAndOr ==
    << <<(<<"attributes", "x">>), Val("int", 1)>>,
       <<(<<"or">>), ListVal(<<Literal, Leaf(<<"id">>, <<">">>, Val("int", 2))>>)>> >>

\* a node and its computer, the node filtered by the filter
FilteredNode(filter) == NodeComputer(filter, <<Item(<<"id">>)>>, << >>, << >>)

WorkloadFilter == {FilteredNode(f) : f \in {TwoKeys, Literal, LiteralAndOr, << >>}}

InitFilter == InitBuilder /\ workload = WorkloadFilter /\ probe = None

\* the builder driven through update_query, on specs with filters
SpecFilter == InitFilter /\ [][UpdateQuery]_vars

\* the entries of the filters of S that are not empty, in order
RECURSIVE NonEmpty(_)
NonEmpty(filters) ==
    IF filters = << >> THEN << >>
    ELSE IF Head(filters)[2] = << >> THEN NonEmpty(Tail(filters))
    ELSE <<Head(filters)>> \o NonEmpty(Tail(filters))

\* an alias of the entity kind of tag t of S
AliasOf(S, t) == [cls |-> TagClass(S, t), tag |-> t, bid |-> 0]

\* the value on the row of the filter compiled on its own
ValueOf(alias, filter, row) == Eval(build_filters(alias, filter).v, row)

\* the (operator, value) pairs under a field path: those of the mapping, or
\* == with the literal
PairsOf(operand) ==
    IF operand.ty = "dict" THEN operand.items ELSE << <<(<<"==">>), operand>> >>

\* the conjunction of one leaf predicate per pair under the field path, or the
\* predicate of the combinator key
KeyValue(alias, key, row) ==
    IF key[1] \in {<<"and">>, <<"or">>} THEN ValueOf(alias, <<key>>, row)
    ELSE Fold3(TRUE,
               [i \in DOMAIN PairsOf(key[2]) |->
                   ValueOf(alias, Leaf(key[1], PairsOf(key[2])[i][1], PairsOf(key[2])[i][2]),
                           row)],
               "T")

\* the conjunction of the predicates of the top-level keys
KeysValue(alias, filter, row) ==
    Fold3(TRUE, [i \in DOMAIN filter |-> KeyValue(alias, filter[i], row)], "T")

\* what C20 says of the build r of S: one predicate per tag with a filter
FilterRule(S, r) ==
    /\ ~Failed(r)
    /\ Len(r.b.query.whereclauses) = Len(NonEmpty(S.filters))
    /\ \A j \in DOMAIN NonEmpty(S.filters) : \A row \in CombinatorRows :
           Eval(r.b.query.whereclauses[j], row) =
               KeysValue(AliasOf(S, NonEmpty(S.filters)[j][1]), NonEmpty(S.filters)[j][2], row)

(* C20: the predicate compiled for the FilterSpec of a tag is the           *)
(* conjunction of the predicates of its top-level keys, that of a field     *)
(* path the conjunction of one leaf predicate per (operator, value) pair; a *)
(* value v that is no mapping compiles as {'==': v}; an empty FilterSpec    *)
(* adds no predicate to the query.                                          *)
C20_FilterIsConjunction ==
    /\ \A S \in workload : FilterRule(S, _build([B EXCEPT !.data = S], NewId, FALSE))
    /\ (last.op = "update_query" /\ last.ret.ok /\ _hash = Some(make_hash(last.arg))) =>
           FilterRule(last.arg, [b |-> B, err |-> None, projection_count |-> 0])

\* a literal under a field path and an or of two specs were compiled into the
\* one predicate of the query, the empty filters of the other tags adding none
C20_Witness ==
    /\ last.op = "update_query"
    /\ last.arg = FilteredNode(LiteralAndOr)
    /\ last.ret.ok
    /\ Len(_query.whereclauses) = 1
    /\ Eval(_query.whereclauses[1], Row(1, "number")) = "T"
    /\ Eval(_query.whereclauses[1], Row(2, "number")) = "F"
    /\ Eval(_query.whereclauses[1], Row(1, "string")) = "F"

------------------------------------------------------------------------------
(* Paths through the closure table: the edge tag with a path filter, with a  *)
(* path projection, with neither, without entries in filters or project, and *)
(* no edge tag at all                                                        *)

\* n, then m with n among its ancestors, the edge under edge_tag
Ancestors(edge_tag, filters, project) ==
    QuerySpec(<<Vertex("n", "node"), Joined("m", "node", "with_ancestors", "n", edge_tag)>>,
              << <<"n", << >> >>, <<"m", << >> >> >> \o filters,
              << <<"n", << >> >>, <<"m", <<Item(<<"id">>)>> >> >> \o project,
              << >>)

PathLeaf == Leaf(<<"path">>, <<"==">>, Val("int", 1))

EdgeFilterPath == Ancestors(Some("e"), << <<"e", PathLeaf>> >>, << <<"e", << >> >> >>)

EdgeProjectPath ==
    Ancestors(Some("e"), << <<"e", << >> >> >>, << <<"e", <<Item(<<"id">>), Item(<<"path">>)>> >> >>)

EdgePlain ==
    Ancestors(Some("e"), << <<"e", Leaf(<<"id">>, <<"==">>, Val("int", 1))>> >>,
              << <<"e", <<Item(<<"id">>)>> >> >>)

\* the second edge asks for the path, the third does not
SecondExpands ==
    QuerySpec(<<Vertex("n", "node"), Joined("m", "node", "with_ancestors", "n", Some("e")),
                Joined("k", "node", "with_ancestors", "m", Some("f"))>>,
              << <<"n", << >> >>, <<"m", << >> >>, <<"k", << >> >>, <<"e", PathLeaf>>,
                 <<"f", << >> >> >>,
              << <<"n", << >> >>, <<"m", << >> >>, <<"k", <<Item(<<"id">>)>> >>,
                 <<"e", << >> >>, <<"f", << >> >> >>,
              << >>)

NoEdgeTag == Ancestors(None, << >>, << >>)

NoFilterEntry == Ancestors(Some("e"), << >>, << <<"e", <<Item(<<"path">>)>> >> >>)

NoProjectEntry == Ancestors(Some("e"), << <<"e", << >> >> >>, << >>)

WorkloadExpand ==
    {EdgeFilterPath, EdgeProjectPath, EdgePlain, SecondExpands, NoEdgeTag, NoFilterEntry,
     NoProjectEntry}

InitExpand == InitBuilder /\ workload = WorkloadExpand /\ probe = None

\* the builder driven through update_query, on paths with edges
SpecExpand == InitExpand /\ [][UpdateQuery]_vars

\* the edge tag of vertex i of S has a filter under key path, or a projection
\* item of it requests the field path
WantsPath(S, i) ==
    /\ S.path[i].edge_tag # None
    /\ \/ DictHas(DictGet(S.filters, S.path[i].edge_tag[1], << >>), <<"path">>)
       \/ \E j \in DOMAIN DictGet(S.project, S.path[i].edge_tag[1], << >>) :
              DictGet(S.project, S.path[i].edge_tag[1], << >>)[j].field = <<"path">>

(* C21: for each vertex after the first, the expand_path flag handed to the *)
(* join strategy is true exactly when the edge tag of the vertex has a      *)
(* filter under key path or a projection item of the edge tag requests the  *)
(* field path; a vertex whose edge tag is absent, or has no entry in        *)
(* filters or project, gets expand_path false and the build proceeds.       *)
C21_ExpandPathFlag ==
    (last.op = "update_query" /\ ~CollaboratorRaised) =>
        /\ last.ret.ok
        /\ Len(last.ret.v.joins) = Len(last.arg.path) - 1
        /\ \A i \in 2 .. Len(last.arg.path) :
               last.ret.v.joins[i - 1].expand_path = WantsPath(last.arg, i)

------------------------------------------------------------------------------
(* Specs that are wrong in several phases of the build at once: the error    *)
(* raised and the query left behind tell how far the build went              *)

BadLeaf == Leaf(<<"id">>, <<"foo">>, Val("int", 1))

GoodLeaf == Leaf(<<"id">>, <<"==">>, Val("int", 1))

BadOrdering == << <<"n", <<[field |-> <<"id">>, order |-> Some("up"), cast |-> None]>> >> >>

\* a node and its computer, limited, offset and distinct
Phased(joining_keyword, filter, project_n, order_by) ==
    [QuerySpec(<<Vertex("n", "node"), Joined("c", "computer", joining_keyword, "n", Some("e"))>>,
               << <<"n", filter>>, <<"c", << >> >>, <<"e", << >> >> >>,
               << <<"n", project_n>>, <<"c", << >> >>, <<"e", << >> >> >>,
               order_by)
        EXCEPT !.limit = Some(1), !.offset = Some(1), !.distinct = TRUE]

\* the second vertex is joined to the third, which is bound after it
ForwardJoin ==
    QuerySpec(<<Vertex("n", "node"), Joined("m", "node", "with_incoming", "k", Some("e")),
                Joined("k", "node", "with_incoming", "n", Some("f"))>>,
              << <<"n", << >> >>, <<"m", << >> >>, <<"k", << >> >>, <<"e", << >> >>,
                 <<"f", << >> >> >>,
              << <<"n", << >> >>, <<"m", << >> >>, <<"k", <<Item(<<"id">>)>> >>,
                 <<"e", << >> >>, <<"f", << >> >> >>,
              << >>)

WorkloadPhases ==
    {Phased("with_foo", BadLeaf, <<Item(<<"id">>), Item(<<"nope">>)>>, BadOrdering),
     Phased("with_node", BadLeaf, <<Item(<<"id">>), Item(<<"nope">>)>>, BadOrdering),
     Phased("with_node", GoodLeaf, <<Item(<<"id">>), Item(<<"nope">>)>>, BadOrdering),
     Phased("with_node", GoodLeaf, <<Item(<<"id">>), Item(<<"id">>)>>, BadOrdering),
     Phased("with_node", GoodLeaf, <<Item(<<"id">>), Item(<<"id">>)>>, << >>),
     Phased("with_node", GoodLeaf, <<Item(<<"id">>)>>, << >>),
     ForwardJoin}

InitPhases == InitBuilder /\ workload = WorkloadPhases /\ probe = None

\* the builder driven through update_query, on specs wrong in several phases
SpecPhases == InitPhases /\ [][UpdateQuery]_vars

\* the projection items of S, over all tags
RECURSIVE AllItems(_)
AllItems(project) ==
    IF project = << >> THEN << >> ELSE Head(project)[2] \o AllItems(Tail(project))

\* the first projection item of S that names no column, 0 when every item does
FirstUnknown(S) ==
    IF \E i \in DOMAIN AllItems(S.project) : AllItems(S.project)[i].field = <<"nope">>
    THEN Min({i \in DOMAIN AllItems(S.project) : AllItems(S.project)[i].field = <<"nope">>})
    ELSE 0

Repeats(S) ==
    \E i, j \in DOMAIN AllItems(S.project) : i < j /\ AllItems(S.project)[i] = AllItems(S.project)[j]

\* the first phase of the claimed order in which S is wrong
FirstWrong(S) ==
    IF UnregisteredAt(S) # {} THEN "joins"
    ELSE IF \E i \in DOMAIN S.filters : S.filters[i][2] = BadLeaf THEN "filters"
    ELSE IF FirstUnknown(S) # 0 THEN "projections"
    ELSE IF S.order_by # << >> THEN "order_by"
    ELSE IF Repeats(S) THEN "index"
    ELSE "done"

\* what the build has attached to the query
Progress(q) ==
    [joins |-> Len(q.joins), filters |-> Len(q.whereclauses), entities |-> Len(q.entities),
     order_by |-> Len(q.order_by), limit |-> q.limit, offset |-> q.offset,
     distinct |-> q.distinct]

\* the error of a phase, by its text
ErrorOf(phase) ==
    CASE phase = "joins" -> "is not a valid joining keyword for a type entity"
      [] phase = "filters" -> "Unknown operator for filters on columns"
      [] phase = "projections" -> "is not a column of"
      [] phase = "order_by" -> "Unknown 'order' key"
      [] phase = "index" ->
            "You are projecting the same key multiple times within the same node"

\* what the query holds when the build of S stops in the phase: every earlier
\* phase of the claimed order complete, no later phase begun; until the end
\* of the build the query holds the entity it was started on
ProgressAt(S, phase) ==
    [joins |-> IF phase = "joins" THEN FirstUnregistered(S) - 2 ELSE Len(S.path) - 1,
     filters |-> IF phase \in {"joins", "filters"} THEN 0 ELSE Len(NonEmpty(S.filters)),
     entities |-> CASE phase \in {"joins", "filters"} -> 1
                    [] phase = "projections" -> FirstUnknown(S)
                    [] phase = "order_by" -> 1 + Len(AllItems(S.project))
                    [] OTHER -> Len(AllItems(S.project)),
     order_by |-> IF phase \in {"index", "done"} THEN Len(S.order_by) ELSE 0,
     limit |-> IF phase \in {"index", "done"} THEN S.limit ELSE None,
     offset |-> IF phase \in {"index", "done"} THEN S.offset ELSE None,
     distinct |-> phase = "done" /\ S.distinct]

\* what C22 says of the build r of S
PhaseRule(S, r) ==
    /\ Failed(r) = (FirstWrong(S) # "done")
    /\ Failed(r) => r.err[1].msg = ErrorOf(FirstWrong(S))
    /\ Progress(r.b.query) = ProgressAt(S, FirstWrong(S))

(* C22: on a cache miss the build runs its phases in one order: aliases for *)
(* all path vertices, joins for the vertices 2..n, filters, projections,    *)
(* order_by, limit, offset, distinct; a spec wrong in several phases fails  *)
(* in the first of them with the earlier phases done and no later one       *)
(* begun; the hash of the spec is stored only after the whole build.        *)
C22_PhasesInOrder ==
    /\ \A S \in workload : PhaseRule(S, _build([B EXCEPT !.data = S], NewId, FALSE))
    /\ last.op = "update_query" =>
           /\ last.ret.ok => _hash = Some(make_hash(last.arg))
           /\ ~last.ret.ok => _hash # Some(make_hash(last.arg))

\* a build stopped by the duplicate check, after limit and offset and before
\* distinct, on a builder that keeps the hash of the spec built before
C22_Witness ==
    /\ last.op = "update_query"
    /\ ~last.ret.ok
    /\ FirstWrong(last.arg) = "index"
    /\ _query.limit = Some(1)
    /\ _query.offset = Some(1)
    /\ ~_query.distinct
    /\ _hash = Some(make_hash(ForwardJoin))

------------------------------------------------------------------------------
(* A lazy row sequence of one spec, with builds of another spec between its  *)
(* rows; every build of the workload succeeds                                *)

WorkloadInterleave == {StarNode, TwoOk}

InitInterleave == InitBuilder /\ workload = WorkloadInterleave /\ probe = None

\* one row sequence at a time, first() being the other user of the builder
SpecInterleave == InitInterleave /\ [][First \/ GenStart \/ GenNext]_vars

\* the last step of a row sequence took a row from the cursor and decoded it
DecodedRow ==
    /\ last.op \in {"iterall", "iterdict"}
    /\ ~CollaboratorRaised
    /\ last.ret # Raise("StopIteration", "", << >>)

\* the external names of the fields projected under tag t of S
NamesOf(S, t) == {ExternalName(TableName(TagClass(S, t)), g) : g \in DOMAIN FieldsOf(S)[t]}

\* the builder holds what a completed build of the spec of its hash leaves:
\* no build was cut short since
Settled ==
    \E S \in workload :
        /\ _hash = Some(make_hash(S))
        /\ _tag_to_projected_fields = FieldsOf(S)
        /\ _projection_index_to_field = CleanBuild(S).b.projection_index_to_field
        /\ DOMAIN _tag_to_alias = DOMAIN CleanBuild(S).b.tag_to_alias

(* C23: every row of a lazy row sequence obtained from iterall or iterdict  *)
(* for a spec is decoded with the projection index, the tag-to-field map    *)
(* and the aliases built for that spec, also when another operation on the  *)
(* builder builds a different spec between two of its rows: the row has the *)
(* slots, the tags and the fields of its own spec (stated for builders     *)
(* whose builds all ran to their end).                                      *)
C23_RowsKeepTheirSpec ==
    (DecodedRow /\ Settled) =>
        /\ last.ret.ok
        /\ last.op = "iterall" => Len(last.ret.v) = Len(Projected(last.arg))
        /\ last.op = "iterdict" =>
               /\ DOMAIN last.ret.v = DOMAIN FieldsOf(last.arg)
               /\ \A t \in DOMAIN FieldsOf(last.arg) : DOMAIN last.ret.v[t] = NamesOf(last.arg, t)

------------------------------------------------------------------------------
(* Positions of the projected fields: vertices and edges projected, columns, *)
(* attribute paths, aggregates, whole entities and ** expansions             *)

\* a node, a node it links to and the computer of that one, projected on the
\* vertices and on the first edge
Mixed ==
    QuerySpec(<<Vertex("n", "node"), Joined("m", "node", "with_incoming", "n", Some("e")),
                Joined("c", "computer", "with_node", "m", Some("f"))>>,
              << <<"n", << >> >>, <<"m", << >> >>, <<"c", << >> >>, <<"e", << >> >>,
                 <<"f", << >> >> >>,
              << <<"e", <<Item(<<"label">>), Item(<<"id">>)>> >>,
                 <<"c", <<Item(<<"**">>)>> >>,
                 <<"n", <<FuncItem(<<"id">>, Some("count")),
                          CastItem(<<"attributes", "x">>, Some("f"))>> >>,
                 <<"m", <<Item(<<"*">>)>> >>,
                 <<"f", << >> >> >>,
              << >>)

WorkloadPositions == {Mixed, BareChain, NodeLinkNode, TwoOk, Duplicate, SameTagTwice}

InitPositions == InitBuilder /\ workload = WorkloadPositions /\ probe = None

\* the builder driven through update_query, on specs with several projections
SpecPositions == InitPositions /\ [][UpdateQuery]_vars

\* the (tag, field key) pairs S projects under the tags, in the order of the tags
RECURSIVE TagPairs(_, _)
TagPairs(S, tags) ==
    IF tags = << >> THEN << >>
    ELSE [i \in DOMAIN TagKeys(S, Head(tags)) |-> <<Head(tags), TagKeys(S, Head(tags))[i]>>]
         \o TagPairs(S, Tail(tags))

\* the projected outputs of S in the claimed order: vertex tags in path
\* order, then edge tags in path order, the items of a tag in declared
\* order; the whole last vertex when S projects nothing
Outputs(S) ==
    IF NoProjection(S) THEN << <<S.path[Len(S.path)].tag, <<"*">> >> >>
    ELSE TagPairs(S, RequestedTags(S))

\* the tag and the field key an output column of the plan stands for
RECURSIVE Names(_)
Names(e) ==
    CASE e.k = "entity" -> <<e.tag, <<"*">> >>
      [] e.k = "column" -> <<e.tag, <<e.name>> >>
      [] e.k = "json" -> <<e.col.tag, <<e.col.name>> \o e.path>>
      [] OTHER -> Names(e.e)

\* what C24 says of the completed build r of S
PositionRule(S, r) ==
    LET fields == r.b.tag_to_projected_fields
        index == r.b.projection_index_to_field
        n == Len(r.b.query.entities)
    IN  /\ n = Len(Outputs(S))
        /\ Positions(fields) = 0 .. n - 1
        /\ NrItems(fields) = n
        /\ \A k \in 1 .. n :
               /\ fields[Outputs(S)[k][1]][Outputs(S)[k][2]] = k - 1
               /\ Names(r.b.query.entities[k]) = Outputs(S)[k]
        /\ DOMAIN index = 0 .. n - 1
        /\ \A t \in DOMAIN fields : \A f \in DOMAIN fields[t] : index[fields[t][f]] = f

(* C24: after every successful build with n projected outputs the positions *)
(* recorded in tag_to_projected_fields are exactly 0..n-1, no gap and no    *)
(* repeat, assigned by vertex tags in path order, then edge tags in path    *)
(* order, within a tag in declared item order, a ** taking one position per *)
(* column; position k names the k-th output column of the plan, and the     *)
(* projection index maps the position of every (tag, field) to the field.   *)
C24_PositionsAreDense ==
    \A S \in workload :
        ~Failed(_build([B EXCEPT !.data = S], NewId, FALSE)) =>
            PositionRule(S, _build([B EXCEPT !.data = S], NewId, FALSE))

\* seven outputs over three vertices and an edge were built by a builder
\* that had built another spec before
C24_Witness ==
    /\ last.op = "update_query"
    /\ last.arg = Mixed
    /\ last.ret.ok
    /\ Len(_query.entities) = 7
    /\ _tag_to_projected_fields["e"][<<"label">>] = 5
    /\ _projection_index_to_field[4] = <<"_metadata">>
    /\ _query.id > 1

====
